---- MODULE Spec2Model ----
(***************************************************************************)
(* Relay / RelayPool of src/src/lib/relay.js as a state machine.           *)
(*                                                                         *)
(* The program runs on one JavaScript event loop (a browser).  A caller    *)
(* task runs API calls synchronously; promise reactions run as microtasks  *)
(* once the synchronous code has returned; the WebSocket objects fire      *)
(* their open / error / close / message events as later tasks, each        *)
(* followed by a microtask checkpoint.  A failing WebSocket fires error    *)
(* and then close in the same task.                                        *)
(***************************************************************************)
EXTENDS Integers, Sequences, FiniteSets, TLC

\* ------------------------------------------------------------------ bounds
MaxSockets == 3      \* connection attempts (new WebSocket) over a run
MaxSubs == 2         \* Relay.subscribe calls over a run
MaxPublish == 1      \* Relay.publish calls over a run
MaxFrames == 2       \* inbound messages delivered over a run

\* Canonical relay URLs; the third has a scheme WebSocket rejects, the fourth
\* a query string.
Urls == {"wss://a/", "wss://b/", "ftp://c/", "wss://a/?x&y"}
\* Values generateSubId can return.
SubIds == {"s1", "s2"}
\* A subscription id no subscribe call ever returned.
NoId == "zz"
FrameIds == SubIds \cup {NoId}
Events == {"e1"}

Statuses == {"disconnected", "connecting", "connected", "error"}

\* The runs explored: the pool a run starts from (each URL already added) and
\* how many attempts, subscribe calls, publish calls, inbound messages and
\* CLOSE frames it may hold.
Scenarios ==
    { \* one relay through repeated attempts, with a subscription
      [pool |-> {"wss://a/"}, sockets |-> MaxSockets, subs |-> 1, pubs |-> 0,
       frames |-> 0, unsubs |-> 1],
      \* one relay through repeated attempts, with publishes
      [pool |-> {"wss://a/"}, sockets |-> MaxSockets, subs |-> 0,
       pubs |-> MaxPublish, frames |-> 0, unsubs |-> 0],
      \* one session, several subscriptions, a message
      [pool |-> {"wss://a/"}, sockets |-> 1, subs |-> MaxSubs, pubs |-> 0,
       frames |-> 1, unsubs |-> 1],
      \* one session, one subscription, several messages
      [pool |-> {"wss://a/"}, sockets |-> 1, subs |-> 1, pubs |-> 0,
       frames |-> MaxFrames, unsubs |-> 1],
      \* two relays with their subscriptions
      [pool |-> {"wss://a/", "wss://b/"}, sockets |-> 2, subs |-> 2, pubs |-> 0,
       frames |-> 0, unsubs |-> 0],
      \* a relay whose URL WebSocket rejects, beside a good one
      [pool |-> {"wss://a/", "ftp://c/"}, sockets |-> 2, subs |-> 1, pubs |-> 1,
       frames |-> 0, unsubs |-> 0] }

\* The reason of a promise that was not rejected.
NoErr == <<"", 0>>

VARIABLES
    scenario,           \* the bounds of this run
    relays,             \* RelayPool.relays: the URLs that have a Relay
    status,             \* Relay.status
    ws,                 \* Relay.ws: index into attempts, 0 = null
    connectionPromise,  \* Relay._connectionPromise: index into attempts, 0 = undefined
    subscriptions,      \* Relay.subscriptions: id -> subscribe call, 0 = absent
    eventCallbacks,     \* Relay.eventCallbacks: id -> onEvent of call, 0 = absent
    eoseCallbacks,      \* Relay.eoseCallbacks: id -> onEose of call, 0 = absent
    attempts,           \* every connect attempt: its WebSocket and its promise
    mq,                 \* the microtask queue
    task,               \* "idle", "caller" (synchronous caller code), "drain"
    pendingClose,       \* socket whose close event follows its error event, 0 = none
    wire,               \* per relay: frames transmitted to the relay
    delivered,          \* per relay: inbound messages and the callback each invoked
    subCalls,           \* the subscribe calls made
    pubs,               \* the publish calls made and their promises
    thrown,             \* the exception the latest API call threw, "" = it returned
    order,              \* RelayPool.relays: its keys in insertion order
    constructed,        \* per URL: how many Relay objects were constructed for it
    poolCall,           \* the RelayPool loop over the members that is running
    poolSubs,           \* the RelayPool.subscribe calls made and what they returned
    poolPubs,           \* the RelayPool.publish calls made and their promises
    codec,              \* the event the event codec is working on
    invoked             \* the subscriber callbacks invoked, in order

vars == <<scenario, relays, status, ws, connectionPromise, subscriptions,
          eventCallbacks, eoseCallbacks, attempts, mq, task, pendingClose,
          wire, delivered, subCalls, pubs, thrown, order, constructed,
          poolCall, poolSubs, poolPubs, codec, invoked>>

\* The state of RelayPool beyond its key set, and of the event codec.
poolVars == <<order, constructed, poolCall, poolSubs, poolPubs>>

\* The elements of a set as a sequence.
RECURSIVE InOrder(_)
InOrder(S) ==
    IF S = {} THEN <<>>
    ELSE LET x == CHOOSE y \in S : TRUE IN <<x>> \o InOrder(S \ {x})

\* No RelayPool loop is running.
NoLoop == [op |-> "", todo |-> <<>>, out |-> <<>>, eose |-> FALSE, ev |-> ""]
\* The event codec is not in use.
NoCodec == [phase |-> "off"]

\* --------------------------------------------------------------- transport

\* new WebSocket(url) throws a SyntaxError for a scheme other than ws / wss.
BadScheme(r) == r = "ftp://c/"

\* The reason the promise of attempt p was rejected with.
RejectionOf(att, p) ==
    IF att[p].rs = "NONE" THEN <<"SyntaxError", p>> ELSE <<"ErrorEvent", p>>

\* WebSocket.send on the relay's current handle: a null handle and a socket
\* still connecting throw, an open socket transmits, a closing or closed
\* socket discards the data silently.
send(r) ==
    IF ws[r] = 0 THEN "TypeError"
    ELSE IF attempts[ws[r]].rs = "CONNECTING" THEN "InvalidStateError"
    ELSE IF attempts[ws[r]].rs = "OPEN" THEN "sent"
    ELSE "dropped"

Throws(res) == res \in {"TypeError", "InvalidStateError"}

\* WebSocket.close(): a connecting socket is aborted (it will fire error and
\* close), an open one starts the closing handshake, otherwise nothing.
wsClose(att, s) ==
    IF att[s].rs = "CONNECTING" THEN [att EXCEPT ![s].rs = "ABORTING"]
    ELSE IF att[s].rs = "OPEN" THEN [att EXCEPT ![s].rs = "CLOSING"]
    ELSE att

\* ---------------------------------------------------------------- promises

Job(rx, ok, err) == [kind |-> rx.kind, n |-> rx.n, ok |-> ok, err |-> err]

\* promise.then(reaction) / await promise, p = 0 being Promise.resolve().
then(att, q, p, rx) ==
    IF p = 0 THEN [att |-> att, mq |-> Append(q, Job(rx, TRUE, NoErr))]
    ELSE IF att[p].promise = "pending"
        THEN [att |-> [att EXCEPT ![p].reactions = Append(@, rx)], mq |-> q]
    ELSE IF att[p].promise = "fulfilled"
        THEN [att |-> att, mq |-> Append(q, Job(rx, TRUE, NoErr))]
    ELSE [att |-> att, mq |-> Append(q, Job(rx, FALSE, RejectionOf(att, p)))]

Jobs(rxs, ok, err) == [i \in 1..Len(rxs) |-> Job(rxs[i], ok, err)]

\* resolve() / reject(error) of attempt s's promise: nothing once settled.
settle(att, q, s, ok, err) ==
    IF att[s].promise # "pending" THEN [att |-> att, mq |-> q]
    ELSE [att |-> [att EXCEPT ![s].promise = IF ok THEN "fulfilled" ELSE "rejected",
                              ![s].reactions = <<>>],
          mq |-> q \o Jobs(att[s].reactions, ok, err)]

\* ------------------------------------------------------------ Relay.connect

NewAttempt(r) ==
    IF BadScheme(r)
    THEN [relay |-> r, rs |-> "NONE", promise |-> "rejected", reactions |-> <<>>]
    ELSE [relay |-> r, rs |-> "CONNECTING", promise |-> "pending", reactions |-> <<>>]

\* connect() without its "connecting" early return: a call made during an
\* attempt opens another transport.
connect_NoJoin(r) ==
    IF status[r] = "connected"
    THEN [st |-> status[r], w |-> ws[r], cp |-> connectionPromise[r],
          att |-> attempts, ret |-> 0]
    ELSE LET k == Len(attempts) + 1 IN
         [st |-> IF BadScheme(r) THEN "error" ELSE "connecting",
          w |-> IF BadScheme(r) THEN ws[r] ELSE k,
          cp |-> k,
          att |-> Append(attempts, NewAttempt(r)),
          ret |-> k]

\* The effect of this.connect() and the promise it returns (ret).
connect(r) ==
    IF status[r] = "connected"
    THEN [st |-> status[r], w |-> ws[r], cp |-> connectionPromise[r],
          att |-> attempts, ret |-> 0]
    ELSE IF status[r] = "connecting"
    THEN [st |-> status[r], w |-> ws[r], cp |-> connectionPromise[r],
          att |-> attempts, ret |-> connectionPromise[r]]
    ELSE LET k == Len(attempts) + 1 IN
         [st |-> IF BadScheme(r) THEN "error" ELSE "connecting",
          w |-> IF BadScheme(r) THEN ws[r] ELSE k,
          cp |-> k,
          att |-> Append(attempts, NewAttempt(r)),
          ret |-> k]

\* connect() can run within the bound on attempts.
CanConnect(r) ==
    status[r] \in {"connected", "connecting"} \/ Len(attempts) < scenario.sockets

\* ------------------------------------------------------------- scheduling

ApiTurn == pendingClose = 0 /\ task \in {"idle", "caller"} /\ poolCall = NoLoop
EventTurn == pendingClose = 0 /\ task = "idle" /\ mq = <<>> /\ poolCall = NoLoop
AfterCall(q) == IF q = <<>> THEN "idle" ELSE "caller"
AfterEvent(q) == IF q = <<>> THEN "idle" ELSE "drain"

Init ==
    /\ scenario \in Scenarios
    /\ relays = scenario.pool
    /\ status = [r \in Urls |-> "disconnected"]
    /\ ws = [r \in Urls |-> 0]
    /\ connectionPromise = [r \in Urls |-> 0]
    /\ subscriptions = [r \in Urls |-> [i \in SubIds |-> 0]]
    /\ eventCallbacks = [r \in Urls |-> [i \in SubIds |-> 0]]
    /\ eoseCallbacks = [r \in Urls |-> [i \in SubIds |-> 0]]
    /\ attempts = <<>>
    /\ mq = <<>>
    /\ task = "idle"
    /\ pendingClose = 0
    /\ wire = [r \in Urls |-> <<>>]
    /\ delivered = [r \in Urls |-> <<>>]
    /\ subCalls = <<>>
    /\ pubs = <<>>
    /\ thrown = ""
    /\ order = InOrder(scenario.pool)
    /\ constructed = [r \in Urls |-> IF r \in scenario.pool THEN 1 ELSE 0]
    /\ poolCall = NoLoop
    /\ poolSubs = <<>>
    /\ poolPubs = <<>>
    /\ codec = NoCodec
    /\ invoked = <<>>

\* A caller's relay.connect().
Connect(r) ==
    /\ ApiTurn /\ r \in relays /\ CanConnect(r)
    /\ LET c == connect(r) IN
        /\ status' = [status EXCEPT ![r] = c.st]
        /\ ws' = [ws EXCEPT ![r] = c.w]
        /\ connectionPromise' = [connectionPromise EXCEPT ![r] = c.cp]
        /\ attempts' = c.att
    /\ task' = AfterCall(mq)
    /\ thrown' = ""
    /\ UNCHANGED <<scenario, relays, subscriptions, eventCallbacks,
                   eoseCallbacks, mq, pendingClose, wire, delivered, subCalls,
                   pubs>>
    /\ UNCHANGED <<poolVars, codec, invoked>>

\* generateSubId(): 11 random base-36 characters; any value may come out,
\* one already in use included.
\* The ids are opaque, so of the ids never returned one stands for all.
Generated == {subCalls[i].id : i \in 1..Len(subCalls)}
FirstUnused == IF "s1" \notin Generated THEN {"s1"} ELSE SubIds \ Generated
generateSubId == Generated \cup FirstUnused

ReqFrame(subId, k) == [t |-> "REQ", id |-> subId, n |-> k]
CloseFrame(subId) == [t |-> "CLOSE", id |-> subId, n |-> 0]
EventFrame(p) == [t |-> "EVENT", id |-> pubs[p].ev, n |-> p]

\* relay.subscribe(filters, onEvent, onEose) returning subId; the call is the
\* k-th subscribe of the run and k names its callbacks.
subscribe(r, subId, onEose) ==
    LET k == Len(subCalls) + 1
        ec == [eventCallbacks EXCEPT ![r][subId] = k]
        eo == IF onEose THEN [eoseCallbacks EXCEPT ![r][subId] = k]
              ELSE eoseCallbacks
    IN  /\ eventCallbacks' = ec
        /\ eoseCallbacks' = eo
        /\ IF status[r] = "connected"
           THEN /\ wire' = IF send(r) = "sent"
                           THEN [wire EXCEPT ![r] = Append(@, ReqFrame(subId, k))]
                           ELSE wire
                \* a throwing send leaves the function before subscriptions.set
                /\ subscriptions' = IF Throws(send(r)) THEN subscriptions
                                    ELSE [subscriptions EXCEPT ![r][subId] = k]
                /\ subCalls' = Append(subCalls,
                       [relay |-> r, id |-> subId, eose |-> onEose, via |-> 0,
                        deferred |-> FALSE, threw |-> Throws(send(r))])
                /\ thrown' = IF Throws(send(r)) THEN send(r) ELSE ""
                /\ task' = AfterCall(mq)
                /\ UNCHANGED <<status, ws, connectionPromise, attempts, mq>>
           ELSE LET c == connect(r)
                    t == then(c.att, mq, c.ret, [kind |-> "sub", n |-> k])
                IN  /\ status' = [status EXCEPT ![r] = c.st]
                    /\ ws' = [ws EXCEPT ![r] = c.w]
                    /\ connectionPromise' = [connectionPromise EXCEPT ![r] = c.cp]
                    /\ attempts' = t.att
                    /\ mq' = t.mq
                    /\ task' = AfterCall(t.mq)
                    /\ subscriptions' = [subscriptions EXCEPT ![r][subId] = k]
                    /\ subCalls' = Append(subCalls,
                           [relay |-> r, id |-> subId, eose |-> onEose,
                            via |-> c.ret, deferred |-> TRUE, threw |-> FALSE])
                    /\ wire' = wire
                    /\ thrown' = ""

Subscribe(r) ==
    /\ ApiTurn /\ r \in relays /\ CanConnect(r)
    /\ Len(subCalls) < scenario.subs
    /\ \E subId \in generateSubId, onEose \in BOOLEAN : subscribe(r, subId, onEose)
    /\ UNCHANGED <<scenario, relays, pendingClose, delivered, pubs>>
    /\ UNCHANGED <<poolVars, codec, invoked>>

\* The .then callback of subscribe: () => this.ws.send(message).  A rejected
\* connection promise skips it; an exception in it is an unhandled rejection.
SubscribeContinuation ==
    /\ mq # <<>> /\ Head(mq).kind = "sub" /\ poolCall = NoLoop
    /\ LET m == Head(mq)
           c == subCalls[m.n]
       IN  wire' = IF m.ok /\ send(c.relay) = "sent"
                   THEN [wire EXCEPT ![c.relay] = Append(@, ReqFrame(c.id, m.n))]
                   ELSE wire
    /\ mq' = Tail(mq)
    /\ task' = AfterEvent(Tail(mq))
    /\ UNCHANGED <<thrown, scenario, relays, status, ws, connectionPromise, subscriptions,
                   eventCallbacks, eoseCallbacks, attempts, pendingClose,
                   delivered, subCalls, pubs>>
    /\ UNCHANGED <<poolVars, codec, invoked>>

CloseFramesSent ==
    Cardinality(UNION {{<<r, i>> : i \in {j \in 1..Len(wire[r]) :
                                             wire[r][j].t = "CLOSE"}} : r \in Urls})

\* relay.unsubscribe(subId)
unsubscribe(r, subId) ==
    IF status[r] = "connected" /\ Throws(send(r))
    THEN /\ thrown' = send(r)
         /\ UNCHANGED <<wire, subscriptions, eventCallbacks, eoseCallbacks>>
    ELSE /\ thrown' = ""
         /\ wire' = IF status[r] = "connected" /\ send(r) = "sent"
                    THEN [wire EXCEPT ![r] = Append(@, CloseFrame(subId))]
                    ELSE wire
         /\ subscriptions' = IF subId \in SubIds
                             THEN [subscriptions EXCEPT ![r][subId] = 0]
                             ELSE subscriptions
         /\ eventCallbacks' = IF subId \in SubIds
                              THEN [eventCallbacks EXCEPT ![r][subId] = 0]
                              ELSE eventCallbacks
         /\ eoseCallbacks' = IF subId \in SubIds
                             THEN [eoseCallbacks EXCEPT ![r][subId] = 0]
                             ELSE eoseCallbacks

Unsubscribe(r, subId) ==
    /\ ApiTurn /\ r \in relays
    /\ (status[r] = "connected" /\ send(r) = "sent")
          => CloseFramesSent < scenario.unsubs
    /\ unsubscribe(r, subId)
    /\ task' = AfterCall(mq)
    /\ UNCHANGED <<scenario, relays, status, ws, connectionPromise, attempts, mq,
                   pendingClose, delivered, subCalls, pubs>>
    /\ UNCHANGED <<poolVars, codec, invoked>>

\* relay.publish(event), up to its await this.connect()
publish(r, ev) ==
    LET p == Len(pubs) + 1
        c == connect(r)
        t == then(c.att, mq, c.ret, [kind |-> "pub", n |-> p])
    IN  /\ status' = [status EXCEPT ![r] = c.st]
        /\ ws' = [ws EXCEPT ![r] = c.w]
        /\ connectionPromise' = [connectionPromise EXCEPT ![r] = c.cp]
        /\ attempts' = t.att
        /\ mq' = t.mq
        /\ task' = AfterCall(t.mq)
        /\ thrown' = ""
        /\ pubs' = Append(pubs, [relay |-> r, ev |-> ev, via |-> c.ret,
                                 state |-> "pending", err |-> NoErr])

Publish(r) ==
    /\ ApiTurn /\ r \in relays /\ CanConnect(r)
    /\ Len(pubs) < scenario.pubs
    /\ \E ev \in Events : publish(r, ev)
    /\ UNCHANGED <<scenario, relays, subscriptions, eventCallbacks, eoseCallbacks,
                   pendingClose, wire, delivered, subCalls>>
    /\ UNCHANGED <<poolVars, codec, invoked>>

\* The RelayPool.publish call that publish call p belongs to, 0 = none.
PoolOf(p) ==
    IF \E P \in 1..Len(poolPubs) : \E i \in 1..Len(poolPubs[P].members) :
           poolPubs[P].members[i] = p
    THEN CHOOSE P \in 1..Len(poolPubs) : \E i \in 1..Len(poolPubs[P].members) :
           poolPubs[P].members[i] = p
    ELSE 0

\* The reaction RelayPool.publish attached with .catch to the promise of
\* publish call p, queued when that promise settles.
CatchJobs(p) ==
    IF PoolOf(p) = 0 THEN <<>>
    ELSE <<[kind |-> "catch", n |-> p, ok |-> TRUE, err |-> NoErr]>>

\* relay.publish that goes on to send although its await was rejected.
PublishContinuation_IgnoresFailure ==
    /\ mq # <<>> /\ Head(mq).kind = "pub" /\ poolCall = NoLoop
    /\ LET m == Head(mq)
           r == pubs[m.n].relay
       IN  /\ wire' = IF send(r) = "sent"
                      THEN [wire EXCEPT ![r] = Append(@, EventFrame(m.n))]
                      ELSE wire
           /\ pubs' = [pubs EXCEPT ![m.n] =
                  IF Throws(send(r))
                  THEN [@ EXCEPT !.state = "rejected", !.err = <<send(r), 0>>]
                  ELSE [@ EXCEPT !.state = "fulfilled"]]
    /\ mq' = Tail(mq) \o CatchJobs(Head(mq).n)
    /\ task' = AfterEvent(Tail(mq) \o CatchJobs(Head(mq).n))
    /\ UNCHANGED <<thrown, scenario, relays, status, ws, connectionPromise, subscriptions,
                   eventCallbacks, eoseCallbacks, attempts, pendingClose,
                   delivered, subCalls>>
    /\ UNCHANGED <<poolVars, codec, invoked>>

\* relay.publish after its await: the rejection propagates, or the frame is
\* sent and the promise of publish fulfils, or send throws and it rejects.
PublishContinuation ==
    /\ mq # <<>> /\ Head(mq).kind = "pub" /\ poolCall = NoLoop
    /\ LET m == Head(mq)
           r == pubs[m.n].relay
       IN  /\ wire' = IF m.ok /\ send(r) = "sent"
                      THEN [wire EXCEPT ![r] = Append(@, EventFrame(m.n))]
                      ELSE wire
           /\ pubs' = [pubs EXCEPT ![m.n] =
                  IF ~m.ok THEN [@ EXCEPT !.state = "rejected", !.err = m.err]
                  ELSE IF Throws(send(r))
                  THEN [@ EXCEPT !.state = "rejected", !.err = <<send(r), 0>>]
                  ELSE [@ EXCEPT !.state = "fulfilled"]]
    /\ mq' = Tail(mq) \o CatchJobs(Head(mq).n)
    /\ task' = AfterEvent(Tail(mq) \o CatchJobs(Head(mq).n))
    /\ UNCHANGED <<thrown, scenario, relays, status, ws, connectionPromise, subscriptions,
                   eventCallbacks, eoseCallbacks, attempts, pendingClose,
                   delivered, subCalls>>
    /\ UNCHANGED <<poolVars, codec, invoked>>

\* relay.close() without its this.eoseCallbacks.clear().
close_KeepsEose(r) ==
    /\ attempts' = IF ws[r] # 0 THEN wsClose(attempts, ws[r]) ELSE attempts
    /\ ws' = [ws EXCEPT ![r] = 0]
    /\ status' = [status EXCEPT ![r] = "disconnected"]
    /\ subscriptions' = [subscriptions EXCEPT ![r] = [i \in SubIds |-> 0]]
    /\ eventCallbacks' = [eventCallbacks EXCEPT ![r] = [i \in SubIds |-> 0]]
    /\ eoseCallbacks' = eoseCallbacks

\* relay.close()
close(r) ==
    /\ attempts' = IF ws[r] # 0 THEN wsClose(attempts, ws[r]) ELSE attempts
    /\ ws' = [ws EXCEPT ![r] = 0]
    /\ status' = [status EXCEPT ![r] = "disconnected"]
    /\ subscriptions' = [subscriptions EXCEPT ![r] = [i \in SubIds |-> 0]]
    /\ eventCallbacks' = [eventCallbacks EXCEPT ![r] = [i \in SubIds |-> 0]]
    /\ eoseCallbacks' = [eoseCallbacks EXCEPT ![r] = [i \in SubIds |-> 0]]

Close(r) ==
    /\ ApiTurn /\ r \in relays
    /\ close(r)
    /\ thrown' = ""
    /\ task' = AfterCall(mq)
    /\ UNCHANGED <<scenario, relays, connectionPromise, mq, pendingClose, wire,
                   delivered, subCalls, pubs>>
    /\ UNCHANGED <<poolVars, codec, invoked>>

\* ------------------------------------------------------ transport events

\* ws.onopen of attempt s: the connection is established.
onopen(s) ==
    LET r == attempts[s].relay
        t == settle([attempts EXCEPT ![s].rs = "OPEN"], mq, s, TRUE, NoErr)
    IN  /\ status' = [status EXCEPT ![r] = "connected"]
        /\ attempts' = t.att
        /\ mq' = t.mq
        /\ task' = AfterEvent(t.mq)

TransportOpen(s) ==
    /\ EventTurn /\ s \in 1..Len(attempts)
    /\ attempts[s].rs = "CONNECTING"
    /\ onopen(s)
    /\ UNCHANGED <<thrown, scenario, relays, ws, connectionPromise,
                   subscriptions, eventCallbacks, eoseCallbacks, pendingClose, wire, delivered, subCalls, pubs>>
    /\ UNCHANGED <<poolVars, codec, invoked>>

\* ws.onerror that sets the status and forgets reject(error).
onerror_NoReject(s) ==
    /\ status' = [status EXCEPT ![attempts[s].relay] = "error"]
    /\ attempts' = [attempts EXCEPT ![s].rs = "CLOSED"]
    /\ UNCHANGED <<mq, task>>

\* ws.onerror of attempt s: the connection failed; its close event follows
\* in the same task.
onerror(s) ==
    LET r == attempts[s].relay
        t == settle([attempts EXCEPT ![s].rs = "CLOSED"], mq, s, FALSE,
                    <<"ErrorEvent", s>>)
    IN  /\ status' = [status EXCEPT ![r] = "error"]
        /\ attempts' = t.att
        /\ mq' = t.mq
        /\ task' = AfterEvent(t.mq)

TransportError(s) ==
    /\ EventTurn /\ s \in 1..Len(attempts)
    /\ attempts[s].rs \in {"CONNECTING", "OPEN", "ABORTING"}
    /\ onerror(s)
    /\ pendingClose' = s
    /\ UNCHANGED <<thrown, scenario, relays, ws, connectionPromise,
                   subscriptions, eventCallbacks, eoseCallbacks, wire, delivered, subCalls, pubs>>
    /\ UNCHANGED <<poolVars, codec, invoked>>

\* ws.onclose of attempt s
onclose(s) ==
    status' = [status EXCEPT ![attempts[s].relay] = "disconnected"]

\* The close event of a socket that failed, once the microtasks of its error
\* event have run.
CloseAfterError ==
    /\ pendingClose # 0 /\ mq = <<>>
    /\ onclose(pendingClose)
    /\ pendingClose' = 0
    /\ UNCHANGED <<thrown, scenario, relays, ws, connectionPromise,
                   subscriptions, eventCallbacks, eoseCallbacks, attempts, mq, task, wire, delivered, subCalls,
                   pubs>>
    /\ UNCHANGED <<poolVars, codec, invoked>>

\* The close event of an established socket: the relay closed it, or the
\* closing handshake that close() started has completed.
TransportClose(s) ==
    /\ EventTurn /\ s \in 1..Len(attempts)
    /\ attempts[s].rs \in {"OPEN", "CLOSING"}
    /\ onclose(s)
    /\ attempts' = [attempts EXCEPT ![s].rs = "CLOSED"]
    /\ UNCHANGED <<thrown, scenario, relays, ws, connectionPromise,
                   subscriptions, eventCallbacks, eoseCallbacks, mq, task, pendingClose, wire, delivered,
                   subCalls, pubs>>
    /\ UNCHANGED <<poolVars, codec, invoked>>

\* Inbound payloads: the frames of the protocol, an array with a tag the
\* protocol does not have ("OTHER"), a JSON value that is no array ("SCALAR")
\* and a text that is no JSON ("GARBAGE").
Frames ==
    [t : {"EVENT"}, id : FrameIds, ev : Events]
    \cup [t : {"EOSE"}, id : FrameIds, ev : {""}]
    \cup [t : {"OK", "NOTICE", "OTHER", "SCALAR", "GARBAGE"}, id : {""}, ev : {""}]

\* The exception the try block of ws.onmessage raises on a payload: JSON.parse
\* a SyntaxError on a text that is no JSON, the destructuring of
\* _handleMessage a TypeError on a value that is not iterable.
Raised(f) ==
    IF f.t = "GARBAGE" THEN "SyntaxError"
    ELSE IF f.t = "SCALAR" THEN "TypeError"
    ELSE ""

NoCall == [kind |-> "", cb |-> 0, ev |-> ""]

\* _handleMessage that ignores the subscription id of an EVENT frame and
\* invokes some registered event callback.
handleMessage_AnySubscription(r, f) ==
    IF f.t = "EVENT"
    THEN IF \E i \in SubIds : eventCallbacks[r][i] # 0
         THEN [kind |-> "onEvent",
               cb |-> eventCallbacks[r][CHOOSE i \in SubIds : eventCallbacks[r][i] # 0],
               ev |-> f.ev]
         ELSE NoCall
    ELSE IF f.t = "EOSE"
    THEN IF f.id \in SubIds /\ eoseCallbacks[r][f.id] # 0
         THEN [kind |-> "onEose", cb |-> eoseCallbacks[r][f.id], ev |-> ""]
         ELSE NoCall
    ELSE NoCall

\* _handleMessage whose EOSE case looks the id up among the event callbacks.
handleMessage_EoseFromEvents(r, f) ==
    IF f.t = "EVENT"
    THEN IF f.id \in SubIds /\ eventCallbacks[r][f.id] # 0
         THEN [kind |-> "onEvent", cb |-> eventCallbacks[r][f.id], ev |-> f.ev]
         ELSE NoCall
    ELSE IF f.t = "EOSE"
    THEN IF f.id \in SubIds /\ eventCallbacks[r][f.id] # 0
         THEN [kind |-> "onEose", cb |-> eventCallbacks[r][f.id], ev |-> ""]
         ELSE NoCall
    ELSE NoCall

\* _handleMessage that drops an event some other relay has already delivered
\* to a callback.
handleMessage_Dedup(r, f) ==
    IF f.t = "EVENT"
    THEN IF /\ f.id \in SubIds /\ eventCallbacks[r][f.id] # 0
            /\ ~\E r2 \in Urls \ {r} : \E i \in 1..Len(delivered[r2]) :
                    /\ delivered[r2][i].call.kind = "onEvent"
                    /\ delivered[r2][i].call.ev = f.ev
         THEN [kind |-> "onEvent", cb |-> eventCallbacks[r][f.id], ev |-> f.ev]
         ELSE NoCall
    ELSE IF f.t = "EOSE"
    THEN IF f.id \in SubIds /\ eoseCallbacks[r][f.id] # 0
         THEN [kind |-> "onEose", cb |-> eoseCallbacks[r][f.id], ev |-> ""]
         ELSE NoCall
    ELSE NoCall

\* _handleMessage(data): the callback it invokes and with what.
handleMessage(r, f) ==
    IF f.t = "EVENT"
    THEN IF f.id \in SubIds /\ eventCallbacks[r][f.id] # 0
         THEN [kind |-> "onEvent", cb |-> eventCallbacks[r][f.id], ev |-> f.ev]
         ELSE NoCall
    ELSE IF f.t = "EOSE"
    THEN IF f.id \in SubIds /\ eoseCallbacks[r][f.id] # 0
         THEN [kind |-> "onEose", cb |-> eoseCallbacks[r][f.id], ev |-> ""]
         ELSE NoCall
    ELSE NoCall

\* ws.onmessage without its try / catch: an exception leaves the handler.
onmessage_NoCatch(s, f) ==
    LET r == attempts[s].relay
        call == IF Raised(f) # "" THEN NoCall ELSE handleMessage(r, f)
    IN  /\ delivered' = [delivered EXCEPT ![r] =
                         Append(@, [frame |-> f, sock |-> s, call |-> call,
                                    caught |-> "", escaped |-> Raised(f)])]
        /\ invoked' = IF call = NoCall THEN invoked
                      ELSE Append(invoked, [relay |-> r, call |-> call,
                                            msg |-> Len(delivered[r]) + 1])

\* ws.onmessage whose callback counts as invoked ahead of those of the
\* messages delivered before: a dispatch that does not keep the order of
\* delivery.
onmessage_Latest(s, f) ==
    LET r == attempts[s].relay
        call == IF Raised(f) # "" THEN NoCall ELSE handleMessage(r, f)
    IN  /\ delivered' = [delivered EXCEPT ![r] =
                         Append(@, [frame |-> f, sock |-> s, call |-> call,
                                    caught |-> Raised(f), escaped |-> ""])]
        /\ invoked' = IF call = NoCall THEN invoked
                      ELSE <<[relay |-> r, call |-> call,
                              msg |-> Len(delivered[r]) + 1]>> \o invoked

\* ws.onmessage of attempt s: JSON.parse, then _handleMessage; an exception
\* is caught and logged, none leaves the handler.
onmessage(s, f) ==
    LET r == attempts[s].relay
        call == IF Raised(f) # "" THEN NoCall ELSE handleMessage(r, f)
    IN  /\ delivered' = [delivered EXCEPT ![r] =
                         Append(@, [frame |-> f, sock |-> s, call |-> call,
                                    caught |-> Raised(f), escaped |-> ""])]
        /\ invoked' = IF call = NoCall THEN invoked
                      ELSE Append(invoked, [relay |-> r, call |-> call,
                                            msg |-> Len(delivered[r]) + 1])

FramesDelivered ==
    Cardinality(UNION {{<<r, i>> : i \in 1..Len(delivered[r])} : r \in Urls})

TransportMessage(s) ==
    /\ EventTurn /\ s \in 1..Len(attempts)
    /\ attempts[s].rs = "OPEN"
    /\ FramesDelivered < scenario.frames
    /\ \E f \in Frames : f.id \in Generated \cup {NoId, ""} /\ onmessage(s, f)
    /\ UNCHANGED <<thrown, scenario, relays, status, ws, connectionPromise, subscriptions,
                   eventCallbacks, eoseCallbacks, attempts, mq, task,
                   pendingClose, wire, subCalls, pubs>>
    /\ UNCHANGED <<poolVars, codec>>

Next ==
    \/ \E r \in Urls : Connect(r)
    \/ \E r \in Urls : Subscribe(r)
    \/ \E r \in Urls, subId \in Generated \cup {NoId} : Unsubscribe(r, subId)
    \/ \E r \in Urls : Publish(r)
    \/ \E r \in Urls : Close(r)
    \/ SubscribeContinuation
    \/ PublishContinuation
    \/ \E s \in 1..MaxSockets : TransportOpen(s)
    \/ \E s \in 1..MaxSockets : TransportError(s)
    \/ CloseAfterError
    \/ \E s \in 1..MaxSockets : TransportClose(s)
    \/ \E s \in 1..MaxSockets : TransportMessage(s)

TypeOK ==
    /\ scenario \in Scenarios
    /\ relays = scenario.pool
    /\ status \in [Urls -> Statuses]
    /\ ws \in [Urls -> 0..Len(attempts)]
    /\ connectionPromise \in [Urls -> 0..Len(attempts)]
    /\ subscriptions \in [Urls -> [SubIds -> 0..Len(subCalls)]]
    /\ eventCallbacks \in [Urls -> [SubIds -> 0..Len(subCalls)]]
    /\ eoseCallbacks \in [Urls -> [SubIds -> 0..Len(subCalls)]]
    /\ task \in {"idle", "caller", "drain"}
    /\ pendingClose \in 0..Len(attempts)
    /\ (mq = <<>>) <=> (task = "idle")
    /\ thrown \in {"", "TypeError", "InvalidStateError"}

Spec == Init /\ [][Next]_vars

\* ------------------------------------------------------------ normalizeURL

\* Relay URLs as a caller may write them: scheme ("" = none written), host,
\* port, path (its characters), query parameters in the order written, and
\* fragment.
Url(scheme, host, port, path, query, hash) ==
    [scheme |-> scheme, host |-> host, port |-> port, path |-> path,
     query |-> query, hash |-> hash]

RawUrls ==
    { Url("", "a", "", <<>>, <<>>, ""),                  \* a
      Url("wss", "a", "", <<"/">>, <<>>, ""),            \* wss://a/
      Url("wss", "a", "443", <<"/", "/">>, <<>>, "top"), \* wss://a:443//#top
      Url("wss", "a", "", <<>>, <<"y", "x">>, ""),       \* wss://a?y&x
      Url("wss", "a", "", <<"/">>, <<"x", "y">>, ""),    \* wss://a/?x&y
      Url("", "b", "443", <<>>, <<>>, ""),               \* b:443
      Url("ftp", "c", "", <<>>, <<>>, ""),               \* ftp://c
      Url("wss", "", "", <<>>, <<>>, "") }               \* wss://

\* What normalizeURL throws stands for: new Error(`Invalid URL: ...`).
InvalidUrl == "Invalid URL"

DefaultPort(scheme) ==
    IF scheme = "wss" THEN "443" ELSE IF scheme = "ws" THEN "80"
    ELSE IF scheme = "ftp" THEN "21" ELSE ""

\* new URL(url): the parser drops the default port of the scheme and gives a
\* URL of these schemes the path "/" when none is written.
ParseUrl(u) ==
    [u EXCEPT !.port = IF u.port = DefaultPort(u.scheme) THEN "" ELSE u.port,
              !.path = IF u.path = <<>> THEN <<"/">> ELSE u.path]

\* pathname.replace(/\/+/g, '/')
RECURSIVE CollapseSlashes(_)
CollapseSlashes(path) ==
    IF Len(path) < 2 THEN path
    ELSE IF path[1] = "/" /\ path[2] = "/" THEN CollapseSlashes(Tail(path))
    ELSE <<path[1]>> \o CollapseSlashes(Tail(path))

\* if (pathname.endsWith('/')) pathname = pathname.slice(0, -1); the setter
\* of pathname keeps "/" for an empty path.
StripTrailingSlash(path) ==
    LET cut == IF path # <<>> /\ path[Len(path)] = "/"
               THEN SubSeq(path, 1, Len(path) - 1) ELSE path
    IN  IF cut = <<>> THEN <<"/">> ELSE cut

ParamRank(q) == IF q = "x" THEN 1 ELSE 2
\* searchParams.sort()
SortParams(query) == SortSeq(query, LAMBDA a, b : ParamRank(a) < ParamRank(b))

RECURSIVE Concat(_)
Concat(parts) == IF parts = <<>> THEN "" ELSE Head(parts) \o Concat(Tail(parts))

RECURSIVE JoinParams(_)
JoinParams(query) ==
    IF Len(query) = 1 THEN query[1]
    ELSE query[1] \o "&" \o JoinParams(Tail(query))

\* p.toString()
UrlString(p) ==
    p.scheme \o "://" \o p.host
      \o (IF p.port = "" THEN "" ELSE ":" \o p.port)
      \o Concat(p.path)
      \o (IF p.query = <<>> THEN "" ELSE "?" \o JoinParams(p.query))
      \o (IF p.hash = "" THEN "" ELSE "#" \o p.hash)

\* normalizeURL(url): the canonical string, or InvalidUrl when it throws.
normalizeURL(u) ==
    LET given == IF u.scheme = "" THEN [u EXCEPT !.scheme = "wss"] ELSE u
    IN  IF given.host = "" THEN InvalidUrl
        ELSE LET p == ParseUrl(given)
                 q == [p EXCEPT
                         !.path = StripTrailingSlash(CollapseSlashes(p.path)),
                         !.port = IF \/ p.port = "80" /\ p.scheme = "ws"
                                     \/ p.port = "443" /\ p.scheme = "wss"
                                  THEN "" ELSE p.port,
                         !.query = SortParams(p.query),
                         !.hash = ""]
             IN  UrlString(q)

\* --------------------------------------------------------------- RelayPool

MaxAdds == 3         \* Relay objects a pool constructs over a run
MaxPoolCalls == 2    \* RelayPool.subscribe / publish calls over a run
MaxPoolFrames == 2   \* events each member of a pool delivers over a run

\* The runs of a pool explored: the URLs its caller passes and how many
\* Relay objects, evictions, attempts, subscribe and publish calls and inbound
\* messages a run may hold.
\* Membership: every way of writing the URLs, removals, closeAll.
PoolMembership ==
    [raw |-> RawUrls, adds |-> MaxAdds, evicts |-> 2, sockets |-> 1,
     psubs |-> 1, ppubs |-> 0, frames |-> 0]
\* Subscribe on two members, each delivering its events.
PoolFanOut ==
    [raw |-> {Url("", "a", "", <<>>, <<>>, ""), Url("", "b", "443", <<>>, <<>>, "")},
     adds |-> 2, evicts |-> 0, sockets |-> 2, psubs |-> 1, ppubs |-> 0,
     frames |-> 2 * MaxPoolFrames]
\* Several subscribe calls on one member.
PoolTwoCalls ==
    [raw |-> {Url("", "a", "", <<>>, <<>>, "")},
     adds |-> 1, evicts |-> 0, sockets |-> 1, psubs |-> MaxPoolCalls,
     ppubs |-> 0, frames |-> 1]
\* Publish to three members, one of which can never connect.
PoolPublishing ==
    [raw |-> {Url("", "a", "", <<>>, <<>>, ""), Url("", "b", "443", <<>>, <<>>, ""),
              Url("ftp", "c", "", <<>>, <<>>, "")},
     adds |-> MaxAdds, evicts |-> 1, sockets |-> MaxAdds, psubs |-> 0, ppubs |-> 1,
     frames |-> 0]

PoolScenarios == {PoolMembership, PoolFanOut, PoolTwoCalls, PoolPublishing}

\* new RelayPool(): no member; no Relay exists yet.
PoolInit ==
    /\ scenario \in PoolScenarios
    /\ relays = {}
    /\ order = <<>>
    /\ constructed = [r \in Urls |-> 0]
    /\ status = [r \in Urls |-> "disconnected"]
    /\ ws = [r \in Urls |-> 0]
    /\ connectionPromise = [r \in Urls |-> 0]
    /\ subscriptions = [r \in Urls |-> [i \in SubIds |-> 0]]
    /\ eventCallbacks = [r \in Urls |-> [i \in SubIds |-> 0]]
    /\ eoseCallbacks = [r \in Urls |-> [i \in SubIds |-> 0]]
    /\ attempts = <<>>
    /\ mq = <<>>
    /\ task = "idle"
    /\ pendingClose = 0
    /\ wire = [r \in Urls |-> <<>>]
    /\ delivered = [r \in Urls |-> <<>>]
    /\ subCalls = <<>>
    /\ pubs = <<>>
    /\ thrown = ""
    /\ poolCall = NoLoop
    /\ poolSubs = <<>>
    /\ poolPubs = <<>>
    /\ codec = NoCodec
    /\ invoked = <<>>

RECURSIVE Sum(_, _)
Sum(f, S) == IF S = {} THEN 0
             ELSE LET x == CHOOSE y \in S : TRUE IN f[x] + Sum(f, S \ {x})

\* Relay objects constructed, and those no longer in the pool.
Constructed == Sum(constructed, Urls)
Evicted == Constructed - Cardinality(relays)

\* Nothing of an evicted Relay of URL k is still running: its sockets have
\* closed and no promise reaction of it is waiting.
Quiet(k) ==
    /\ \A s \in 1..Len(attempts) : attempts[s].relay = k =>
          attempts[s].rs \in {"CLOSED", "NONE"} /\ attempts[s].reactions = <<>>
    /\ mq = <<>>

\* pool.addRelay(url) that constructs a Relay whether or not the key is
\* present.
addRelay_Replaces(u) ==
    LET k == normalizeURL(u) IN
    IF k = InvalidUrl
    THEN /\ thrown' = "Error"
         /\ UNCHANGED <<relays, order, constructed, status, ws, connectionPromise,
                        subscriptions, eventCallbacks, eoseCallbacks>>
    ELSE /\ thrown' = ""
         /\ relays' = relays \cup {k}
         /\ order' = IF k \in relays THEN order ELSE Append(order, k)
         /\ constructed' = [constructed EXCEPT ![k] = @ + 1]
         /\ status' = [status EXCEPT ![k] = "disconnected"]
         /\ ws' = [ws EXCEPT ![k] = 0]
         /\ connectionPromise' = [connectionPromise EXCEPT ![k] = 0]
         /\ subscriptions' = [subscriptions EXCEPT ![k] = [i \in SubIds |-> 0]]
         /\ eventCallbacks' = [eventCallbacks EXCEPT ![k] = [i \in SubIds |-> 0]]
         /\ eoseCallbacks' = [eoseCallbacks EXCEPT ![k] = [i \in SubIds |-> 0]]

\* pool.addRelay(url): the Relay of the normalized URL, constructed (new
\* Relay: disconnected, no socket, empty maps) if the pool has none.
addRelay(u) ==
    LET k == normalizeURL(u) IN
    IF k = InvalidUrl
    THEN /\ thrown' = "Error"
         /\ UNCHANGED <<relays, order, constructed, status, ws, connectionPromise,
                        subscriptions, eventCallbacks, eoseCallbacks>>
    ELSE IF k \in relays
    THEN /\ thrown' = ""
         /\ UNCHANGED <<relays, order, constructed, status, ws, connectionPromise,
                        subscriptions, eventCallbacks, eoseCallbacks>>
    ELSE /\ thrown' = ""
         /\ relays' = relays \cup {k}
         /\ order' = Append(order, k)
         /\ constructed' = [constructed EXCEPT ![k] = @ + 1]
         /\ status' = [status EXCEPT ![k] = "disconnected"]
         /\ ws' = [ws EXCEPT ![k] = 0]
         /\ connectionPromise' = [connectionPromise EXCEPT ![k] = 0]
         /\ subscriptions' = [subscriptions EXCEPT ![k] = [i \in SubIds |-> 0]]
         /\ eventCallbacks' = [eventCallbacks EXCEPT ![k] = [i \in SubIds |-> 0]]
         /\ eoseCallbacks' = [eoseCallbacks EXCEPT ![k] = [i \in SubIds |-> 0]]

\* A caller's pool.addRelay(url).  The state of a Relay is kept per URL, so a
\* URL is given a second Relay only once the evicted one has gone quiet.
AddRelay(u) ==
    /\ ApiTurn /\ u \in scenario.raw
    /\ (normalizeURL(u) \in Urls \ relays) =>
          Constructed < scenario.adds /\ Quiet(normalizeURL(u))
    /\ addRelay(u)
    /\ task' = AfterCall(mq)
    /\ UNCHANGED <<scenario, attempts, mq, pendingClose, wire, delivered,
                   subCalls, pubs, poolCall, poolSubs, poolPubs, codec, invoked>>

\* pool.removeRelay(url)
removeRelay(u) ==
    LET k == normalizeURL(u) IN
    IF k = InvalidUrl
    THEN /\ thrown' = "Error"
         /\ UNCHANGED <<relays, order, status, ws, attempts, subscriptions,
                        eventCallbacks, eoseCallbacks>>
    ELSE IF k \in relays
    THEN /\ thrown' = ""
         /\ close(k)
         /\ relays' = relays \ {k}
         /\ order' = SelectSeq(order, LAMBDA r : r # k)
    ELSE /\ thrown' = ""
         /\ UNCHANGED <<relays, order, status, ws, attempts, subscriptions,
                        eventCallbacks, eoseCallbacks>>

RemoveRelay(u) ==
    /\ ApiTurn /\ u \in scenario.raw
    /\ normalizeURL(u) \in relays => Evicted < scenario.evicts
    /\ removeRelay(u)
    /\ task' = AfterCall(mq)
    /\ UNCHANGED <<scenario, constructed, connectionPromise, mq, pendingClose,
                   wire, delivered, subCalls, pubs, poolCall, poolSubs,
                   poolPubs, codec, invoked>>

\* pool.closeAll(): relay.close() on every member, then relays.clear().
closeAll ==
    /\ attempts' = [s \in DOMAIN attempts |->
                       IF \E r \in relays : ws[r] = s
                       THEN wsClose(attempts, s)[s] ELSE attempts[s]]
    /\ ws' = [r \in Urls |-> IF r \in relays THEN 0 ELSE ws[r]]
    /\ status' = [r \in Urls |-> IF r \in relays THEN "disconnected" ELSE status[r]]
    /\ subscriptions' = [r \in Urls |-> IF r \in relays THEN [i \in SubIds |-> 0]
                                       ELSE subscriptions[r]]
    /\ eventCallbacks' = [r \in Urls |-> IF r \in relays THEN [i \in SubIds |-> 0]
                                        ELSE eventCallbacks[r]]
    /\ eoseCallbacks' = [r \in Urls |-> IF r \in relays THEN [i \in SubIds |-> 0]
                                       ELSE eoseCallbacks[r]]
    /\ relays' = {}
    /\ order' = <<>>

CloseAll ==
    /\ ApiTurn
    /\ Evicted + Cardinality(relays) <= scenario.evicts
    /\ closeAll
    /\ thrown' = ""
    /\ task' = AfterCall(mq)
    /\ UNCHANGED <<scenario, constructed, connectionPromise, mq, pendingClose,
                   wire, delivered, subCalls, pubs, poolCall, poolSubs,
                   poolPubs, codec, invoked>>

\* The attempts the members would open fit the bound on attempts.
CanConnectAll ==
    Len(attempts) + Cardinality({r \in relays :
                                    status[r] \notin {"connected", "connecting"}})
        <= scenario.sockets

\* pool.subscribe(filters, onEvent, onEose): the loop over relays.values()
\* starts; an empty pool returns [] at once.
PoolSubscribe ==
    /\ ApiTurn /\ CanConnectAll
    /\ Len(poolSubs) < scenario.psubs
    /\ \E onEose \in BOOLEAN :
          IF order = <<>>
          THEN /\ poolSubs' = Append(poolSubs, [eose |-> onEose, subs |-> <<>>])
               /\ poolCall' = poolCall
          ELSE /\ poolCall' = [op |-> "subscribe", todo |-> order, out |-> <<>>,
                               eose |-> onEose, ev |-> ""]
               /\ poolSubs' = poolSubs
    /\ thrown' = ""
    /\ UNCHANGED <<scenario, relays, status, ws, connectionPromise, subscriptions,
                   eventCallbacks, eoseCallbacks, attempts, mq, task,
                   pendingClose, wire, delivered, subCalls, pubs, order,
                   constructed, poolPubs, codec, invoked>>

\* One pass of the loop of pool.subscribe: relay.subscribe on the next member
\* and subs.push({relay, subId}); after the last member subs is returned.  An
\* exception of relay.subscribe ends the call without a result.
PoolSubscribeMember ==
    /\ poolCall.op = "subscribe"
    /\ LET r == Head(poolCall.todo)
           k == Len(subCalls) + 1
       IN  \E subId \in generateSubId :
              /\ subscribe(r, subId, poolCall.eose)
              /\ LET out == Append(poolCall.out,
                                   [relay |-> r, subId |-> subId, call |-> k])
                 IN  IF thrown' # ""
                     THEN poolCall' = NoLoop /\ poolSubs' = poolSubs
                     ELSE IF Tail(poolCall.todo) = <<>>
                     THEN /\ poolCall' = NoLoop
                          /\ poolSubs' = Append(poolSubs, [eose |-> poolCall.eose,
                                                           subs |-> out])
                     ELSE /\ poolCall' = [poolCall EXCEPT !.todo = Tail(@),
                                                          !.out = out]
                          /\ poolSubs' = poolSubs
    /\ UNCHANGED <<scenario, relays, pendingClose, delivered, pubs, order,
                   constructed, poolPubs, codec, invoked>>

\* An outcome Promise.all is still waiting for, and the value of a fulfilled
\* relay.publish (undefined).
Waiting == [settled |-> FALSE, relay |-> "", error |-> NoErr]
Undefined == [settled |-> TRUE, relay |-> "", error |-> NoErr]

\* pool.publish(event): the loop over relays.values() starts; for an empty
\* pool Promise.all([]) is fulfilled at once.
PoolPublish ==
    /\ ApiTurn /\ CanConnectAll
    /\ Len(poolPubs) < scenario.ppubs
    /\ \E ev \in Events :
          IF order = <<>>
          THEN /\ poolPubs' = Append(poolPubs, [members |-> <<>>, outcomes |-> <<>>,
                                                state |-> "fulfilled"])
               /\ poolCall' = poolCall
          ELSE /\ poolCall' = [op |-> "publish", todo |-> order, out |-> <<>>,
                               eose |-> FALSE, ev |-> ev]
               /\ poolPubs' = poolPubs
    /\ thrown' = ""
    /\ UNCHANGED <<scenario, relays, status, ws, connectionPromise, subscriptions,
                   eventCallbacks, eoseCallbacks, attempts, mq, task,
                   pendingClose, wire, delivered, subCalls, pubs, order,
                   constructed, poolSubs, codec, invoked>>

\* One pass of the loop of pool.publish: relay.publish(event).catch(...) on
\* the next member; after the last member Promise.all(promises) is returned.
PoolPublishMember ==
    /\ poolCall.op = "publish"
    /\ LET r == Head(poolCall.todo)
           p == Len(pubs) + 1
           out == Append(poolCall.out, p)
       IN  /\ publish(r, poolCall.ev)
           /\ IF Tail(poolCall.todo) = <<>>
              THEN /\ poolCall' = NoLoop
                   /\ poolPubs' = Append(poolPubs,
                         [members |-> out,
                          outcomes |-> [i \in 1..Len(out) |-> Waiting],
                          state |-> "pending"])
              ELSE /\ poolCall' = [poolCall EXCEPT !.todo = Tail(@), !.out = out]
                   /\ poolPubs' = poolPubs
    /\ UNCHANGED <<scenario, relays, subscriptions, eventCallbacks, eoseCallbacks,
                   pendingClose, wire, delivered, subCalls, order, constructed,
                   poolSubs, codec, invoked>>

\* The promise of relay.publish call p as .catch leaves it: a rejection becomes
\* the value {relay, error}, a fulfilment stays undefined.
Caught(p) ==
    IF pubs[p].state = "rejected"
    THEN [settled |-> TRUE, relay |-> pubs[p].relay, error |-> pubs[p].err]
    ELSE Undefined

PositionIn(q, x) == CHOOSE i \in 1..Len(q) : q[i] = x

\* The reaction of pool.publish without its .catch: the rejection of a member
\* reaches Promise.all, which rejects.
PoolPublishOutcome_NoCatch ==
    /\ mq # <<>> /\ Head(mq).kind = "catch" /\ poolCall = NoLoop
    /\ LET p == Head(mq).n
           P == PoolOf(p)
           i == PositionIn(poolPubs[P].members, p)
           outs == [poolPubs[P].outcomes EXCEPT ![i] = Caught(p)]
       IN  poolPubs' = [poolPubs EXCEPT ![P] =
              [@ EXCEPT !.outcomes = outs,
                        !.state = IF @ # "pending" THEN @
                                  ELSE IF pubs[p].state = "rejected" THEN "rejected"
                                  ELSE IF \A j \in 1..Len(outs) : outs[j].settled
                                  THEN "fulfilled" ELSE @]]
    /\ mq' = Tail(mq)
    /\ task' = AfterEvent(Tail(mq))
    /\ UNCHANGED <<thrown, scenario, relays, status, ws, connectionPromise,
                   subscriptions, eventCallbacks, eoseCallbacks, attempts,
                   pendingClose, wire, delivered, subCalls, pubs, order,
                   constructed, poolCall, poolSubs, codec, invoked>>

\* The reaction of pool.publish with Promise.race in the place of Promise.all:
\* the first outcome completes the call.
PoolPublishOutcome_Race ==
    /\ mq # <<>> /\ Head(mq).kind = "catch" /\ poolCall = NoLoop
    /\ LET p == Head(mq).n
           P == PoolOf(p)
           i == PositionIn(poolPubs[P].members, p)
           outs == [poolPubs[P].outcomes EXCEPT ![i] = Caught(p)]
       IN  poolPubs' = [poolPubs EXCEPT ![P] =
              [@ EXCEPT !.outcomes = outs, !.state = "fulfilled"]]
    /\ mq' = Tail(mq)
    /\ task' = AfterEvent(Tail(mq))
    /\ UNCHANGED <<thrown, scenario, relays, status, ws, connectionPromise,
                   subscriptions, eventCallbacks, eoseCallbacks, attempts,
                   pendingClose, wire, delivered, subCalls, pubs, order,
                   constructed, poolCall, poolSubs, codec, invoked>>

\* The reactions of pool.publish to the settling of a member's relay.publish:
\* .catch turns it into an outcome, and Promise.all is fulfilled with the
\* outcomes once it has one of every member.
PoolPublishOutcome ==
    /\ mq # <<>> /\ Head(mq).kind = "catch" /\ poolCall = NoLoop
    /\ LET p == Head(mq).n
           P == PoolOf(p)
           i == PositionIn(poolPubs[P].members, p)
           outs == [poolPubs[P].outcomes EXCEPT ![i] = Caught(p)]
       IN  poolPubs' = [poolPubs EXCEPT ![P] =
              [@ EXCEPT !.outcomes = outs,
                        !.state = IF \A j \in 1..Len(outs) : outs[j].settled
                                  THEN "fulfilled" ELSE @]]
    /\ mq' = Tail(mq)
    /\ task' = AfterEvent(Tail(mq))
    /\ UNCHANGED <<thrown, scenario, relays, status, ws, connectionPromise,
                   subscriptions, eventCallbacks, eoseCallbacks, attempts,
                   pendingClose, wire, delivered, subCalls, pubs, order,
                   constructed, poolCall, poolSubs, codec, invoked>>

\* The message event of a member's socket, for the events of a subscription
\* that pool.subscribe made.
PoolMessage(s) ==
    /\ s \in 1..Len(attempts)
    /\ Len(delivered[attempts[s].relay]) < MaxPoolFrames
    /\ TransportMessage(s)
    /\ LET d == delivered'[attempts[s].relay] IN
          d[Len(d)].frame.t = "EVENT" /\ d[Len(d)].frame.id \in SubIds

PoolNext ==
    \/ \E u \in RawUrls : AddRelay(u)
    \/ \E u \in RawUrls : RemoveRelay(u)
    \/ CloseAll
    \/ PoolSubscribe
    \/ PoolSubscribeMember
    \/ PoolPublish
    \/ PoolPublishMember
    \/ SubscribeContinuation
    \/ PublishContinuation
    \/ PoolPublishOutcome
    \/ \E s \in 1..MaxSockets : TransportOpen(s)
    \/ \E s \in 1..MaxSockets : TransportError(s)
    \/ CloseAfterError
    \/ \E s \in 1..MaxSockets : TransportClose(s)
    \/ \E s \in 1..MaxSockets : PoolMessage(s)

\* RelayPool over its Relay objects.
PoolSpec == PoolInit /\ [][PoolNext]_vars

\* ------------------------------------------------------------------ claims

Live(s) == attempts[s].rs \in {"CONNECTING", "OPEN"}
AttemptsOf(r) == {s \in 1..Len(attempts) : attempts[s].relay = r}
NewAttempts == (Len(attempts) + 1)..Len(attempts')
Settled(k, kind) ==
    /\ \A i \in 1..Len(mq) : ~(mq[i].kind = kind /\ mq[i].n = k)
    /\ \A s \in 1..Len(attempts) : \A i \in 1..Len(attempts[s].reactions) :
           ~(attempts[s].reactions[i].kind = kind /\ attempts[s].reactions[i].n = k)

\* C1: connect() is idempotent.  While the status is 'connected' a call
\* (direct, or made by subscribe / publish) opens no transport, changes no
\* state and hands back an already resolved promise; while the status is
\* 'connecting' it opens no second transport and hands back the pending
\* promise of the attempt in flight.
C1_InFlight ==
    \A r \in Urls : status[r] = "connecting" =>
        /\ connectionPromise[r] \in AttemptsOf(r)
        /\ attempts[connectionPromise[r]].promise = "pending"
        /\ connectionPromise[r] = ws[r]

C1_Step ==
    \A r \in Urls :
        /\ status[r] \in {"connected", "connecting"} =>
              \A s \in NewAttempts : attempts'[s].relay # r
        /\ (Connect(r) /\ status[r] \in {"connected", "connecting"}) =>
              UNCHANGED <<relays, status, ws, connectionPromise, subscriptions,
                          eventCallbacks, eoseCallbacks, attempts, mq, wire,
                          delivered, subCalls, pubs>>
        /\ (Len(pubs') > Len(pubs) /\ pubs'[Len(pubs')].relay = r) =>
              /\ status[r] = "connected" => pubs'[Len(pubs')].via = 0
              /\ status[r] = "connecting" =>
                    pubs'[Len(pubs')].via = connectionPromise[r]
        /\ (Len(subCalls') > Len(subCalls) /\ subCalls'[Len(subCalls')].relay = r) =>
              /\ status[r] = "connected" => subCalls'[Len(subCalls')].via = 0
              /\ status[r] = "connecting" =>
                    subCalls'[Len(subCalls')].via = connectionPromise[r]

\* C1: a connect request on a relay that is connecting or connected opens no
\* transport and changes no state: it joins the attempt in flight or returns
\* a resolved promise, whether called directly or through subscribe/publish.
C1_ConnectIdempotent == [](C1_InFlight) /\ [][C1_Step]_vars

\* Two subscribe calls wait on the one attempt of a relay that is connecting.
C1_Witness ==
    \E r \in Urls :
        /\ status[r] = "connecting"
        /\ Cardinality(AttemptsOf(r)) = 1
        /\ Len(attempts[connectionPromise[r]].reactions) = 2

\* C2: an attempt started by connect() takes the status from disconnected (or
\* error) to connecting, to connected when its transport opens and to error
\* when its transport fails; a failure rejects the attempt's promise and every
\* caller waiting on it with the transport's error.
C2_Step ==
    /\ \A s \in NewAttempts : attempts'[s].rs = "CONNECTING" =>
          /\ status[attempts'[s].relay] \in {"disconnected", "error"}
          /\ status'[attempts'[s].relay] = "connecting"
    /\ \A s \in 1..Len(attempts) :
          /\ (attempts[s].rs = "CONNECTING" /\ attempts'[s].rs = "OPEN") =>
                /\ status'[attempts[s].relay] = "connected"
                /\ attempts'[s].promise = "fulfilled"
          /\ (attempts[s].rs \in {"CONNECTING", "ABORTING"}
                /\ attempts'[s].rs = "CLOSED") =>
                /\ status'[attempts[s].relay] = "error"
                /\ attempts'[s].promise = "rejected"
                /\ mq' = mq \o [i \in 1..Len(attempts[s].reactions) |->
                                [kind |-> attempts[s].reactions[i].kind,
                                 n |-> attempts[s].reactions[i].n,
                                 ok |-> FALSE, err |-> <<"ErrorEvent", s>>]]

C2_Waiters ==
    \A p \in 1..Len(pubs) :
        (pubs[p].via # 0 /\ attempts[pubs[p].via].promise = "rejected"
            /\ attempts[pubs[p].via].rs # "NONE" /\ Settled(p, "pub")) =>
        /\ pubs[p].state = "rejected"
        /\ pubs[p].err = <<"ErrorEvent", pubs[p].via>>

\* C2: an attempt goes disconnected/error -> connecting, then to connected
\* when the transport opens or to error when it fails; every caller waiting
\* on a failed attempt is rejected with that attempt's error.
C2_AttemptTransitions == [](C2_Waiters) /\ [][C2_Step]_vars

\* A publish was rejected with the error event of the transport it waited on.
C2_Witness ==
    \E p \in 1..Len(pubs) :
        /\ pubs[p].state = "rejected"
        /\ pubs[p].via # 0
        /\ pubs[p].err = <<"ErrorEvent", pubs[p].via>>
        /\ attempts[pubs[p].via].rs = "CLOSED"

\* C3: a relay never has two live (connecting or open) transports.
C3_OneLiveTransport ==
    \A r \in Urls : Cardinality({s \in AttemptsOf(r) : Live(s)}) <= 1

ReqCount(k) ==
    Cardinality({i \in 1..Len(wire[subCalls[k].relay]) :
                    /\ wire[subCalls[k].relay][i].t = "REQ"
                    /\ wire[subCalls[k].relay][i].n = k})

\* C4: the REQ frame of a subscribe call is transmitted at most once and by a
\* call that registered its callbacks; for a call made while not connected it
\* is not transmitted before the attempt the call waits on is established,
\* and once that attempt is established it has been transmitted.
C4_ReqOnceEstablished ==
    \A k \in 1..Len(subCalls) :
        /\ ReqCount(k) <= 1
        /\ subCalls[k].threw => ReqCount(k) = 0
        /\ subCalls[k].deferred =>
              /\ subCalls[k].via \in AttemptsOf(subCalls[k].relay)
              /\ attempts[subCalls[k].via].promise # "fulfilled" => ReqCount(k) = 0
              /\ (attempts[subCalls[k].via].promise = "fulfilled"
                    /\ Settled(k, "sub")) => ReqCount(k) = 1

Registered(r, id) ==
    id \in SubIds /\ (subscriptions[r][id] # 0 \/ eventCallbacks[r][id] # 0
                        \/ eoseCallbacks[r][id] # 0)

MessageStep(r) == Len(delivered'[r]) = Len(delivered[r]) + 1
LastDelivered(r) == delivered'[r][Len(delivered'[r])]

\* C5: an inbound EVENT (EOSE) frame is routed by its subscription id alone:
\* it invokes the event (end) callback registered under that id on that
\* connection, once and with the frame's event, and nothing else; a frame
\* whose id is not registered invokes nothing; no frame changes any state.
C5_Step ==
    \A r \in Urls : MessageStep(r) =>
        LET d == LastDelivered(r)
            f == d.frame
        IN  /\ delivered'[r] = Append(delivered[r], d)
            /\ (f.t = "EVENT" /\ f.id \in SubIds /\ eventCallbacks[r][f.id] # 0) =>
                  d.call = [kind |-> "onEvent", cb |-> eventCallbacks[r][f.id],
                            ev |-> f.ev]
            /\ (f.t = "EOSE" /\ f.id \in SubIds /\ eoseCallbacks[r][f.id] # 0) =>
                  d.call = [kind |-> "onEose", cb |-> eoseCallbacks[r][f.id],
                            ev |-> ""]
            /\ (f.t = "EVENT" /\ (f.id \notin SubIds \/ eventCallbacks[r][f.id] = 0)) =>
                  d.call.cb = 0
            /\ (f.t = "EOSE" /\ (f.id \notin SubIds \/ eoseCallbacks[r][f.id] = 0)) =>
                  d.call.cb = 0
            /\ \A r2 \in Urls \ {r} : delivered'[r2] = delivered[r2]
            /\ UNCHANGED <<relays, status, ws, connectionPromise, subscriptions,
                           eventCallbacks, eoseCallbacks, attempts, mq, wire,
                           subCalls, pubs, thrown>>

\* C5: an incoming frame invokes only the callback registered on this relay
\* under the frame's subscription id, nothing for an unknown id, and changes
\* no other state.
C5_RoutedBySubscriptionId == [][C5_Step]_vars

\* With two subscriptions registered, an EVENT frame for the second one's id
\* invoked the second one's callback.
C5_Witness ==
    \E r \in Urls : \E i \in 1..Len(delivered[r]) :
        /\ delivered[r][i].frame.t = "EVENT"
        /\ delivered[r][i].call = [kind |-> "onEvent", cb |-> 2, ev |-> "e1"]
        /\ \E a, b \in SubIds : /\ eventCallbacks[r][a] = 1
                                 /\ eventCallbacks[r][b] = 2
                                 /\ delivered[r][i].frame.id = b

EoseCalls(r, id, k) ==
    {i \in 1..Len(delivered[r]) : /\ delivered[r][i].frame.t = "EOSE"
                                   /\ delivered[r][i].frame.id = id
                                   /\ delivered[r][i].call.kind = "onEose"
                                   /\ delivered[r][i].call.cb = k}

\* C6 (as claimed): the end callback of a subscription id is invoked at most
\* once on a connection, however many EOSE frames carry the id.
C6_EoseAtMostOnce ==
    \A r \in Urls : \A id \in SubIds : \A k \in 1..Len(subCalls) :
        Cardinality(EoseCalls(r, id, k)) <= 1

\* C6 (amended): every EOSE frame whose id has an end callback registered
\* invokes that callback once, a repeated frame included; an EOSE frame whose
\* id has none invokes nothing; delivering it leaves the registries as they are.
C6_Step ==
    \A r \in Urls : (MessageStep(r) /\ LastDelivered(r).frame.t = "EOSE") =>
        LET d == LastDelivered(r)
            id == d.frame.id
        IN  /\ d.call.kind = "onEose" <=> (id \in SubIds /\ eoseCallbacks[r][id] # 0)
            /\ d.call.kind = "onEose" => d.call.cb = eoseCallbacks[r][id]
            /\ d.call.kind # "onEose" => d.call = NoCall
            /\ eoseCallbacks' = eoseCallbacks

\* C6 (amended): every EOSE frame whose id has a registered end callback
\* invokes that callback, once per frame; an id without one invokes nothing.
C6_EoseEveryFrame == [][C6_Step]_vars

\* Two EOSE frames for one id invoked the same end callback twice.
C6_Witness ==
    \E r \in Urls : \E id \in SubIds : \E k \in 1..Len(subCalls) :
        Cardinality(EoseCalls(r, id, k)) = 2

\* C7: unsubscribe(id) removes id from the three registries before it
\* returns, in every status, and touches no other subscription of this or of
\* another connection; a frame delivered while id is absent invokes nothing
\* for it.
C7_Step ==
    \A r \in Urls :
        /\ \A id \in SubIds : Unsubscribe(r, id) =>
              /\ ~Registered(r, id)'
              /\ \A r2 \in Urls : \A id2 \in SubIds : (r2 # r \/ id2 # id) =>
                    /\ subscriptions'[r2][id2] = subscriptions[r2][id2]
                    /\ eventCallbacks'[r2][id2] = eventCallbacks[r2][id2]
                    /\ eoseCallbacks'[r2][id2] = eoseCallbacks[r2][id2]
        /\ MessageStep(r) =>
              (LastDelivered(r).call.cb # 0 => Registered(r, LastDelivered(r).frame.id))

\* C7: when unsubscribe(id) is over, id is absent from the registry in every
\* connection status, and no later frame is routed to its callbacks.
C7_UnsubscribeImmediate == [][C7_Step]_vars

\* C8: unsubscribe of an id that is not registered changes no registry and no
\* status, transmits nothing and raises nothing.
C8_Step ==
    \A r \in Urls : \A id \in SubIds \cup {NoId} :
        (Unsubscribe(r, id) /\ ~Registered(r, id)) =>
            /\ UNCHANGED <<subscriptions, eventCallbacks, eoseCallbacks, status, wire>>
            /\ thrown' = ""

\* C8: unsubscribe of an id that is not registered sends no frame, changes
\* neither registry nor status, and does not throw.
C8_UnsubscribeUnknown == [][C8_Step]_vars

Empty(r) ==
    \A id \in SubIds : /\ subscriptions[r][id] = 0
                        /\ eventCallbacks[r][id] = 0
                        /\ eoseCallbacks[r][id] = 0

\* C9: close() in any status closes the transport the relay holds and drops
\* the handle, empties the three registries and sets the status to
\* 'disconnected' without raising; a close() in that state changes nothing.
C9_Step ==
    \A r \in Urls : Close(r) =>
        /\ ws'[r] = 0
        /\ ws[r] # 0 => attempts'[ws[r]].rs \in {"ABORTING", "CLOSING", "CLOSED"}
        /\ ws[r] # 0 => attempts'[ws[r]].rs # "CLOSED" \/ attempts[ws[r]].rs = "CLOSED"
        /\ status'[r] = "disconnected"
        /\ Empty(r)'
        /\ thrown' = ""
        /\ (ws[r] = 0 /\ status[r] = "disconnected" /\ Empty(r)) =>
              UNCHANGED <<relays, status, ws, connectionPromise, subscriptions,
                          eventCallbacks, eoseCallbacks, attempts, mq, wire,
                          delivered, subCalls, pubs>>

C10_ClosedDropsSubscriptions ==
    \A r \in Urls :
        (ws[r] # 0 /\ attempts[ws[r]].rs = "CLOSED" /\ pendingClose # ws[r]) =>
            \A id \in SubIds : subscriptions[r][id] = 0

\* A payload that is a protocol-level anomaly for relay r: no JSON, no array,
\* an unknown tag, an OK or NOTICE frame, or a frame of a subscription id that
\* r has not registered.
Anomaly(r, f) ==
    \/ f.t \in {"GARBAGE", "SCALAR", "OTHER", "OK", "NOTICE"}
    \/ f.t \in {"EVENT", "EOSE"} /\ ~Registered(r, f.id)

C11_Step ==
    \A r \in Urls : (MessageStep(r) /\ Anomaly(r, LastDelivered(r).frame)) =>
        /\ LastDelivered(r).call = NoCall
        /\ LastDelivered(r).escaped = ""
        /\ UNCHANGED <<relays, status, ws, connectionPromise, subscriptions,
                       eventCallbacks, eoseCallbacks, attempts, mq, pendingClose,
                       wire, subCalls, pubs, thrown>>

\* C11: a protocol-level anomaly (an unparseable payload, an unknown tag, an
\* OK or NOTICE frame, a frame of an unknown subscription) invokes no
\* subscriber callback, lets no exception leave the handler and leaves the
\* status, the transport and the registries as they were.
C11_AnomaliesNotFatal == [][C11_Step]_vars

\* Each kind of anomaly has been delivered on a connection that has a
\* subscription, and the connection is still connected on its open socket.
C11_Witness ==
    \E r \in Urls :
        /\ status[r] = "connected" /\ ws[r] # 0 /\ attempts[ws[r]].rs = "OPEN"
        /\ ~Empty(r)
        /\ Len(delivered[r]) = 2
        /\ delivered[r][1].caught = "SyntaxError"
        /\ delivered[r][2].frame.t = "EVENT" /\ delivered[r][2].frame.id = NoId
        /\ delivered[r][2].call = NoCall

\* The EVENT frames of publish call p on the wire.
EventFramesOf(p) ==
    {i \in 1..Len(wire[pubs[p].relay]) :
        /\ wire[pubs[p].relay][i].t = "EVENT"
        /\ wire[pubs[p].relay][i].n = p}

\* The connection attempt publish call p awaited has failed.
AttemptFailed(p) ==
    pubs[p].via # 0 /\ attempts[pubs[p].via].promise = "rejected"

C12_Inv ==
    \A p \in 1..Len(pubs) :
        /\ EventFramesOf(p) # {} =>
              /\ pubs[p].via = 0 \/ attempts[pubs[p].via].promise = "fulfilled"
              /\ Cardinality(EventFramesOf(p)) = 1
        /\ AttemptFailed(p) => EventFramesOf(p) = {}
        /\ (AttemptFailed(p) /\ Settled(p, "pub")) =>
              /\ pubs[p].state = "rejected"
              /\ pubs[p].err = RejectionOf(attempts, pubs[p].via)

C12_Step ==
    \A p \in 1..Len(pubs) :
        LET r == pubs[p].relay IN
        \* the frame goes out on the open transport of an established connection
        /\ (Len(wire'[r]) > Len(wire[r]) /\ wire'[r][Len(wire'[r])].t = "EVENT"
               /\ wire'[r][Len(wire'[r])].n = p) =>
              /\ status[r] = "connected"
              /\ ws[r] # 0 /\ attempts[ws[r]].rs = "OPEN"
        \* the failure of the attempt leaves the status at 'error' when the
        \* call is rejected
        /\ (pubs[p].state = "pending" /\ pubs'[p].state = "rejected"
               /\ pubs'[p].err[1] = "ErrorEvent") =>
              status[r] = "error" /\ status'[r] = "error"

Connects(P, i) ==
    LET p == poolPubs[P].members[i] IN
    pubs[p].via # 0 /\ attempts[pubs[p].via].promise = "fulfilled"

C13_Inv ==
    \A P \in 1..Len(poolPubs) :
        /\ poolPubs[P].state # "rejected"
        /\ Len(poolPubs[P].outcomes) = Len(poolPubs[P].members)
        /\ \A i \in 1..Len(poolPubs[P].members) :
              LET p == poolPubs[P].members[i] IN
              /\ (Connects(P, i) /\ Settled(p, "pub")) =>
                    pubs[p].state = "fulfilled"
              /\ pubs[p].state = "fulfilled" => Cardinality(EventFramesOf(p)) = 1
              /\ pubs[p].state = "rejected" => EventFramesOf(p) = {}
              /\ poolPubs[P].state = "fulfilled" =>
                    /\ pubs[p].state = "rejected" <=>
                          poolPubs[P].outcomes[i] =
                              [settled |-> TRUE, relay |-> pubs[p].relay,
                               error |-> pubs[p].err]
                    /\ pubs[p].state = "fulfilled" <=>
                          poolPubs[P].outcomes[i] = Undefined

\* The call that pool.publish returns from has one relay.publish per member.
C13_Step ==
    Len(poolPubs') > Len(poolPubs) =>
        LET m == poolPubs'[Len(poolPubs')].members IN
        /\ Len(m) = Len(order)
        /\ \A i \in 1..Len(m) : pubs'[m[i]].relay = order[i]

\* C13: pool.publish never rejects; the EVENT frame is sent to every member
\* that connects, whatever the other members do; the result has one outcome
\* per member, a failure {relay, error} exactly for the members whose publish
\* was rejected and a success for the others.
C13_PoolPublishNeverRejects == [](C13_Inv) /\ [][C13_Step]_vars

\* pool.publish over three members has completed with two successes and the
\* failure of the member that can never connect.
C13_Witness ==
    \E P \in 1..Len(poolPubs) :
        /\ poolPubs[P].state = "fulfilled"
        /\ Len(poolPubs[P].members) = 3
        /\ Cardinality({i \in 1..3 : poolPubs[P].outcomes[i] = Undefined}) = 2
        /\ \E i \in 1..3 :
              /\ poolPubs[P].outcomes[i].relay = "ftp://c/"
              /\ poolPubs[P].outcomes[i].error[1] = "SyntaxError"
        /\ Len(wire["wss://a/"]) = 1 /\ Len(wire["wss://b/"]) = 1

\* C14: pool.publish has not completed while the publish of a member is
\* pending, and has completed once every member's publish has settled and the
\* promise reactions have run.
C14_CompletesWhenAllSettled ==
    \A P \in 1..Len(poolPubs) :
        /\ poolPubs[P].state # "pending" =>
              \A i \in 1..Len(poolPubs[P].members) :
                  pubs[poolPubs[P].members[i]].state # "pending"
        /\ ((\A i \in 1..Len(poolPubs[P].members) :
                  pubs[poolPubs[P].members[i]].state # "pending") /\ mq = <<>>) =>
              poolPubs[P].state = "fulfilled"

\* pool.publish has completed after its members settled at different times:
\* one was fulfilled when its socket opened, one rejected by an error event.
C14_Witness ==
    \E P \in 1..Len(poolPubs) :
        /\ poolPubs[P].state = "fulfilled"
        /\ \E i, j \in 1..Len(poolPubs[P].members) :
              /\ pubs[poolPubs[P].members[i]].state = "fulfilled"
              /\ pubs[poolPubs[P].members[j]].state = "rejected"
              /\ pubs[poolPubs[P].members[j]].err[1] = "ErrorEvent"

\* The invocations of the event callback of pool.subscribe call P.
Invocations(P) ==
    UNION {{<<poolSubs[P].subs[i].relay, j>> :
               j \in {j \in 1..Len(delivered[poolSubs[P].subs[i].relay]) :
                        LET d == delivered[poolSubs[P].subs[i].relay][j] IN
                        d.call.kind = "onEvent" /\ d.call.cb = poolSubs[P].subs[i].call}} :
           i \in 1..Len(poolSubs[P].subs)}

C15_Step ==
    \* the call returns one pair per member, each naming the one subscription
    \* the call made on that member
    /\ Len(poolSubs') > Len(poolSubs) =>
          LET P == poolSubs'[Len(poolSubs')] IN
          /\ Len(P.subs) = Len(order)
          /\ \A i \in 1..Len(P.subs) :
                /\ P.subs[i].relay = order[i]
                /\ P.subs[i].call = P.subs[1].call + i - 1
                /\ subCalls'[P.subs[i].call].relay = order[i]
                /\ subCalls'[P.subs[i].call].id = P.subs[i].subId
                /\ eventCallbacks'[order[i]][P.subs[i].subId] = P.subs[i].call
                /\ subscriptions'[order[i]][P.subs[i].subId] = P.subs[i].call
    \* an event a member delivers for the subscription of a call invokes the
    \* callback of that call, once, whatever other members have delivered
    /\ \A r \in Urls : MessageStep(r) =>
          LET d == LastDelivered(r) IN
          \A P \in 1..Len(poolSubs) : \A i \in 1..Len(poolSubs[P].subs) :
              LET pair == poolSubs[P].subs[i] IN
              (/\ pair.relay = r /\ d.frame.t = "EVENT" /\ d.frame.id = pair.subId
               /\ eventCallbacks[r][pair.subId] = pair.call) =>
                  /\ d.call = [kind |-> "onEvent", cb |-> pair.call, ev |-> d.frame.ev]
                  /\ delivered'[r] = Append(delivered[r], d)
                  /\ Cardinality(Invocations(P)') = Cardinality(Invocations(P)) + 1

\* C15: pool.subscribe makes one subscription on each member and returns one
\* (relay URL, subscription id) pair per member; every event a member delivers
\* for that subscription invokes the callback of the call once, with no
\* deduplication across relays.
C15_PoolSubscribeFanOut == [][C15_Step]_vars

\* Two members have each delivered the same event twice to the subscriptions
\* of one pool.subscribe call: four invocations of its callback.
C15_Witness ==
    \E P \in 1..Len(poolSubs) :
        /\ Len(poolSubs[P].subs) = 2
        /\ Cardinality(Invocations(P)) = 2 * MaxPoolFrames
        /\ \A i \in 1..2 : Len(delivered[poolSubs[P].subs[i].relay]) = MaxPoolFrames

\* A canonical URL string as a URL a caller may write.
Written(k) ==
    CASE k = "wss://a/" -> Url("wss", "a", "", <<"/">>, <<>>, "")
      [] k = "wss://b/" -> Url("wss", "b", "", <<"/">>, <<>>, "")
      [] k = "ftp://c/" -> Url("ftp", "c", "", <<"/">>, <<>>, "")
      [] k = "wss://a/?x&y" -> Url("wss", "a", "", <<"/">>, <<"x", "y">>, "")

\* Two ways of writing a URL that name the same relay: the same host, scheme
\* (wss when none is written), port (the default of the scheme when none is
\* written) and query parameters, and a path of nothing but separators.
SameRelay(u, v) ==
    LET scheme(w) == IF w.scheme = "" THEN "wss" ELSE w.scheme
        port(w) == IF w.port = "" THEN DefaultPort(scheme(w)) ELSE w.port
        params(w) == {w.query[i] : i \in 1..Len(w.query)}
    IN  /\ u.host = v.host /\ u.host # ""
        /\ scheme(u) = scheme(v) /\ port(u) = port(v)
        /\ params(u) = params(v)

C16_Inv ==
    \* the keys of the pool are canonical, one key per relay
    /\ \A k \in relays : k \in Urls /\ normalizeURL(Written(k)) = k
    /\ \A k1, k2 \in relays : SameRelay(Written(k1), Written(k2)) => k1 = k2
    /\ Len(order) = Cardinality(relays)
    /\ {order[i] : i \in 1..Len(order)} = relays
    \* every way of writing a relay's URL leads to its key
    /\ \A u, v \in RawUrls : SameRelay(u, v) => normalizeURL(u) = normalizeURL(v)
    /\ \A u \in RawUrls : normalizeURL(u) # InvalidUrl =>
          normalizeURL(Written(normalizeURL(u))) = normalizeURL(u)

C16_Step ==
    \A u \in RawUrls :
        LET k == normalizeURL(u) IN
        /\ (AddRelay(u) /\ k \in relays) =>
              UNCHANGED <<relays, order, constructed, status, ws,
                          connectionPromise, subscriptions, eventCallbacks,
                          eoseCallbacks, attempts, mq, wire, delivered, subCalls,
                          pubs>>
        /\ (AddRelay(u) /\ k \in Urls \ relays) =>
              /\ relays' = relays \cup {k}
              /\ constructed'[k] = constructed[k] + 1
              /\ \A r \in relays : /\ status'[r] = status[r] /\ ws'[r] = ws[r]
                                    /\ subscriptions'[r] = subscriptions[r]
        /\ (RemoveRelay(u) /\ k \in relays) =>
              /\ relays' = relays \ {k}
              /\ status'[k] = "disconnected" /\ ws'[k] = 0 /\ Empty(k)'
              /\ ws[k] # 0 => attempts'[ws[k]].rs \notin {"CONNECTING", "OPEN"}
        /\ (AddRelay(u) \/ RemoveRelay(u)) /\ k = InvalidUrl =>
              UNCHANGED <<relays, order, constructed, status, ws, attempts>>

\* C16: the pool holds at most one connection per canonical URL: addRelay of
\* a URL whose canonical form is present constructs nothing and leaves the
\* connection as it is, removeRelay closes the connection (disconnected,
\* empty registries) and evicts it.
C16_OneRelayPerUrl == [](C16_Inv) /\ [][C16_Step]_vars

\* A pool that has constructed a second Relay for a URL after evicting the
\* first, beside another member that is connecting with a subscription.
C16_Witness ==
    /\ Len(order) = 2 /\ order[2] = "wss://a/"
    /\ constructed["wss://a/"] = 2
    /\ status[order[1]] = "connecting" /\ ~Empty(order[1])

\* ---------------------------------------------------- further claims on Relay

\* C17: no two subscribe calls on one relay receive the same subscription
\* id, so the callbacks registered under an id are those of the one call that
\* received it.
C17_UniqueSubIds ==
    \A i, j \in 1..Len(subCalls) :
        (i # j /\ subCalls[i].relay = subCalls[j].relay) =>
            subCalls[i].id # subCalls[j].id

\* The callbacks relay r has invoked, in the order of their invocation.
InvokedBy(r) == SelectSeq(invoked, LAMBDA c : c.relay = r)

\* C18: the callbacks a connection invokes are the image of the messages its
\* transport delivered, in the order of delivery: each invocation is the one
\* its message produced, and a later invocation belongs to a later message.
\* Nothing orders the invocations of different relays.
C18_DispatchInOrder ==
    \A r \in Urls :
        LET inv == InvokedBy(r) IN
        /\ Len(inv) = Cardinality({j \in 1..Len(delivered[r]) :
                                      delivered[r][j].call # NoCall})
        /\ \A i \in 1..Len(inv) :
              /\ inv[i].msg \in 1..Len(delivered[r])
              /\ inv[i].call = delivered[r][inv[i].msg].call
              /\ \A j \in 1..Len(inv) : i < j => inv[i].msg < inv[j].msg

\* Two relays have each dispatched two messages, interleaved: the relay added
\* last dispatched first and last.
C18_Witness ==
    /\ Len(order) = 2 /\ Len(invoked) = 4
    /\ invoked[1].relay = order[2] /\ invoked[2].relay = order[1]
    /\ invoked[3].relay = order[1] /\ invoked[4].relay = order[2]

\* -------------------------------------------------------------- event codec

MaxTamper == 1       \* fields of a signed event that differ when it is received

\* JavaScript values: a number, a string, undefined, or an array of values.
Num(x) == [t |-> "number", v |-> x]
Str(x) == [t |-> "string", v |-> x]
Arr(q) == [t |-> "array", v |-> q]
Undef == [t |-> "undefined", v |-> ""]

\* Secret keys, and the auxiliary randomness of a signature.
Keys == {"k1", "k2"}
Nonces == {"r1", "r2"}

\* bytesToHex(schnorr.getPublicKey(secretKey)): 64 hex characters.
getPublicKey(sk) == "pub." \o sk
\* A string of 64 hex characters that is not the public key of a key above.
OtherHex64 == "pub.other"
\* pubkey.match(/^[a-f0-9]{64}$/)
IsHex64(x) == x \in {getPublicKey(sk) : sk \in Keys} \cup {OtherHex64}

\* bytesToHex(sha256(utf8Encoder.encode(text))): a hash without collisions.
sha256(text) == "sha256(" \o text \o ")"

\* bytesToHex(schnorr.sign(msg, secretKey)) with auxiliary randomness aux.
schnorrSign(msg, sk, aux) == "sig." \o aux \o "." \o getPublicKey(sk) \o "." \o msg
\* 128 hex characters that are no signature of anything, and a string that is
\* not 128 hex characters.
FlippedSig == "sig.flipped"
MalformedSig == "zz"

\* schnorr.verify(sig, msg, pubkey): true for a signature over msg under the
\* key; an exception for arguments that are not of the right form.
schnorrVerify(sig, msg, pubkey) ==
    IF sig.t # "string" \/ sig.v = MalformedSig \/ pubkey.t # "string"
    THEN "throws"
    ELSE IF \E sk \in Keys, aux \in Nonces :
               getPublicKey(sk) = pubkey.v /\ sig.v = schnorrSign(msg, sk, aux)
    THEN "true" ELSE "false"

\* JSON.stringify(value)
RECURSIVE Json(_)
Json(x) ==
    IF x.t = "number" THEN (IF x.v = "NaN" THEN "null" ELSE x.v)
    ELSE IF x.t = "string" THEN "\"" \o x.v \o "\""
    ELSE IF x.t = "array"
    THEN LET RECURSIVE items(_)
             items(q) == IF q = <<>> THEN ""
                         ELSE IF Len(q) = 1 THEN Json(q[1])
                         ELSE Json(q[1]) \o "," \o items(Tail(q))
         IN  "[" \o items(x.v) \o "]"
    ELSE "null"

\* An event object; shape is what the variable holds: an object, null or
\* undefined.
Event(shape, kind, content, created_at, tags, pubkey, id, sig) ==
    [shape |-> shape, kind |-> kind, content |-> content,
     created_at |-> created_at, tags |-> tags, pubkey |-> pubkey, id |-> id,
     sig |-> sig]

\* validateEvent(event): "true", "false", or the TypeError of reading a
\* property of null.
validateEvent(e) ==
    IF e.shape = "undefined" THEN "false"
    ELSE IF e.shape = "null" THEN "TypeError"
    ELSE IF e.kind.t # "number" THEN "false"
    ELSE IF e.content.t # "string" THEN "false"
    ELSE IF e.created_at.t # "number" THEN "false"
    ELSE IF e.pubkey.t # "string" THEN "false"
    ELSE IF ~IsHex64(e.pubkey.v) THEN "false"
    ELSE IF e.tags.t # "array" THEN "false"
    ELSE IF \E i \in 1..Len(e.tags.v) : e.tags.v[i].t # "array" THEN "false"
    ELSE IF \E i \in 1..Len(e.tags.v) : \E j \in 1..Len(e.tags.v[i].v) :
                e.tags.v[i].v[j].t # "string" THEN "false"
    ELSE "true"

\* The result of a function: the exception it throws ("" = none) or its value.
Throw(err) == [err |-> err, val |-> ""]
Return(val) == [err |-> "", val |-> val]

\* serializeEvent(event)
serializeEvent(e) ==
    IF validateEvent(e) = "TypeError" THEN Throw("TypeError")
    ELSE IF validateEvent(e) = "false" THEN Throw("Error")
    ELSE Return(Json(Arr(<<Num("0"), e.pubkey, e.created_at, e.kind, e.tags,
                           e.content>>)))

\* getEventHash(event)
getEventHash(e) ==
    IF serializeEvent(e).err # "" THEN serializeEvent(e)
    ELSE Return(sha256(serializeEvent(e).val))

\* finalizeEvent that hashes and signs the template as it was given, and
\* sets pubkey afterwards.
finalizeEvent_HashesTemplate(t, sk, aux) ==
    LET given == [t EXCEPT !.pubkey = IF t.pubkey = Undef
                                      THEN Str(OtherHex64) ELSE t.pubkey]
        h == getEventHash(given)
    IN  IF h.err # "" THEN h
        ELSE Return([t EXCEPT !.pubkey = Str(getPublicKey(sk)),
                              !.id = Str(h.val),
                              !.sig = Str(schnorrSign(h.val, sk, aux))])

\* finalizeEvent(eventTemplate, secretKey), aux being the randomness of the
\* signature.
finalizeEvent(t, sk, aux) ==
    LET event == [t EXCEPT !.pubkey = Str(getPublicKey(sk))]
        h == getEventHash(event)
    IN  IF h.err # "" THEN h
        ELSE Return([event EXCEPT !.id = Str(h.val),
                                  !.sig = Str(schnorrSign(h.val, sk, aux))])

\* verifyEvent(event): "true", "false", or the exception it throws.
verifyEvent(e) ==
    LET h == getEventHash(e) IN
    IF h.err # "" THEN h.err
    ELSE IF Str(h.val) # e.id THEN "false"
    ELSE IF schnorrVerify(e.sig, h.val, e.pubkey) = "throws" THEN "false"
    ELSE schnorrVerify(e.sig, h.val, e.pubkey)

\* Event templates: the fields a caller sets; a template may carry a pubkey,
\* which finalizeEvent replaces.  The last one lacks its content.
Templates ==
    { Event("object", Num("1"), content, created_at, tags, pubkey, Undef, Undef) :
        content \in {Str("hi"), Str("")},
        created_at \in {Num("10"), Num("NaN")},
        tags \in {Arr(<<>>), Arr(<<Arr(<<Str("e"), Str("x")>>)>>)},
        pubkey \in {Undef, Str(OtherHex64)} }
    \cup { Event("object", Num("1"), Undef, Num("10"), Arr(<<>>), Undef, Undef,
                 Undef) }

\* What a field of an event received from the network may hold in the place
\* of the value that was signed.
Received(field) ==
    IF field = "shape" THEN {"null", "undefined"}
    ELSE IF field = "kind" THEN {Num("2"), Str("1"), Undef}
    ELSE IF field = "content" THEN {Str("ho"), Num("1")}
    ELSE IF field = "created_at" THEN {Num("11"), Undef}
    ELSE IF field = "tags"
    THEN {Arr(<<Arr(<<Str("p"), Str("x")>>)>>), Str("e"), Undef,
          Arr(<<Str("e")>>), Arr(<<Arr(<<Num("1")>>)>>)}
    ELSE IF field = "pubkey" THEN {Str(OtherHex64), Str("XYZ"), Undef}
    ELSE IF field = "id" THEN {Str(sha256("[]")), Str(""), Undef}
    ELSE {Str(FlippedSig), Str(MalformedSig), Undef}

Fields == {"shape", "kind", "content", "created_at", "tags", "pubkey", "id", "sig"}

\* The state of everything but the event codec, which the codec does not use.
NoScenario == [pool |-> {}, sockets |-> 0, subs |-> 0, pubs |-> 0, frames |-> 0,
               unsubs |-> 0]
rest == <<scenario, relays, status, ws, connectionPromise, subscriptions,
          eventCallbacks, eoseCallbacks, attempts, mq, task, pendingClose,
          wire, delivered, subCalls, pubs, thrown, order, constructed,
          poolCall, poolSubs, poolPubs, invoked>>

\* A caller holds a template and a secret key.
CodecInit ==
    /\ scenario = NoScenario
    /\ relays = {}
    /\ order = <<>>
    /\ constructed = [r \in Urls |-> 0]
    /\ status = [r \in Urls |-> "disconnected"]
    /\ ws = [r \in Urls |-> 0]
    /\ connectionPromise = [r \in Urls |-> 0]
    /\ subscriptions = [r \in Urls |-> [i \in SubIds |-> 0]]
    /\ eventCallbacks = [r \in Urls |-> [i \in SubIds |-> 0]]
    /\ eoseCallbacks = [r \in Urls |-> [i \in SubIds |-> 0]]
    /\ attempts = <<>>
    /\ mq = <<>>
    /\ task = "idle"
    /\ pendingClose = 0
    /\ wire = [r \in Urls |-> <<>>]
    /\ delivered = [r \in Urls |-> <<>>]
    /\ subCalls = <<>>
    /\ pubs = <<>>
    /\ thrown = ""
    /\ poolCall = NoLoop
    /\ poolSubs = <<>>
    /\ poolPubs = <<>>
    /\ invoked = <<>>
    /\ \E t \in Templates, sk \in Keys :
          codec = [phase |-> "template", ev |-> t, key |-> sk, changed |-> 0,
                   result |-> ""]

\* finalizeEvent(template, secretKey)
Finalize ==
    /\ codec.phase = "template"
    /\ \E aux \in Nonces :
          LET f == finalizeEvent(codec.ev, codec.key, aux) IN
          codec' = IF f.err # ""
                   THEN [codec EXCEPT !.phase = "done", !.result = f.err]
                   ELSE [codec EXCEPT !.phase = "event", !.ev = f.val]
    /\ UNCHANGED rest

\* The event travels through a relay, which may hand on something else: one
\* field differs from what was signed.
Receive ==
    /\ codec.phase = "event" /\ codec.changed < MaxTamper
    /\ \E field \in Fields : \E x \in Received(field) :
          codec' = [codec EXCEPT !.ev[field] = x, !.changed = @ + 1]
    /\ UNCHANGED rest

\* verifyEvent(event)
Verify ==
    /\ codec.phase = "event"
    /\ codec' = [codec EXCEPT !.phase = "done", !.result = verifyEvent(codec.ev)]
    /\ UNCHANGED rest

CodecNext == Finalize \/ Receive \/ Verify

\* The event codec: finalizeEvent, the network, verifyEvent.
CodecSpec == CodecInit /\ [][CodecNext]_vars

\* ----------------------------------------------------- claims on the codec

\* The canonical serialization [0, pubkey, created_at, kind, tags, content]
\* of an event whose fields are well-formed.
Canonical(e) ==
    Json(Arr(<<Num("0"), e.pubkey, e.created_at, e.kind, e.tags, e.content>>))

\* C19: for a valid template and a key, finalizeEvent sets pubkey to the
\* public key of the key, id to the hash of the canonical serialization and
\* sig to a signature over id under the key, and verifyEvent of the result is
\* true.
C19_FinalizeVerifies ==
    /\ (codec.phase = "event" /\ codec.changed = 0) =>
          /\ codec.ev.pubkey = Str(getPublicKey(codec.key))
          /\ codec.ev.id = Str(sha256(Canonical(codec.ev)))
          /\ \E aux \in Nonces :
                codec.ev.sig = Str(schnorrSign(codec.ev.id.v, codec.key, aux))
          /\ verifyEvent(codec.ev) = "true"
    /\ (codec.phase = "done" /\ codec.changed = 0 /\ codec.ev.id # Undef) =>
          codec.result = "true"

\* verifyEvent has returned true for the event finalizeEvent made of a
\* template that has tags and came with another pubkey.
C19_Witness ==
    /\ codec.phase = "done" /\ codec.changed = 0 /\ codec.result = "true"
    /\ codec.ev.tags.v # <<>>
    /\ codec.ev.pubkey = Str(getPublicKey("k2"))
    /\ codec.ev.created_at = Num("NaN")

\* C20: verifyEvent of an event received from the network returns true or
\* false and throws nothing.
C20_VerifyNeverThrows ==
    (codec.phase = "done" /\ codec.ev.id # Undef /\ codec.changed > 0) =>
        codec.result \in {"true", "false"}

\* --------------------------------------------------------- identifier codec

\* A string is a sequence of characters.
BECH32_CHARSET ==
    <<"q", "p", "z", "r", "y", "9", "x", "8", "g", "f", "2", "t", "v", "d", "w",
      "0", "s", "3", "j", "n", "5", "4", "k", "h", "c", "e", "6", "m", "u", "a",
      "7", "l">>

\* str.indexOf(c): the first index (from 0) of c, or -1.
IndexOf(str, c) ==
    IF \E i \in 1..Len(str) : str[i] = c
    THEN (CHOOSE i \in 1..Len(str) : str[i] = c /\ \A j \in 1..(i - 1) : str[j] # c) - 1
    ELSE -1

\* str.lastIndexOf(c)
LastIndexOf(str, c) ==
    IF \E i \in 1..Len(str) : str[i] = c
    THEN (CHOOSE i \in 1..Len(str) : str[i] = c /\ \A j \in (i + 1)..Len(str) : str[j] # c) - 1
    ELSE -1

\* c.charCodeAt(0), for the letters of the tags.
CharCode ==
    [c \in {"n", "p", "u", "b", "s", "e", "c", "o", "t"} |->
        CASE c = "n" -> 110 [] c = "p" -> 112 [] c = "u" -> 117 [] c = "b" -> 98
          [] c = "s" -> 115 [] c = "e" -> 101 [] c = "c" -> 99 [] c = "o" -> 111
          [] c = "t" -> 116]

\* a ^ b on five bits, and on non-negative integers in base 32.
XorBits ==
    [a \in 0..31, b \in 0..31 |->
        LET bit(x, k) == (x \div (2 ^ k)) % 2
            RECURSIVE from(_)
            from(k) == IF k > 4 THEN 0
                       ELSE ((bit(a, k) + bit(b, k)) % 2) * (2 ^ k) + from(k + 1)
        IN  from(0)]
RECURSIVE Xor(_, _)
Xor(a, b) ==
    IF a = 0 THEN b ELSE IF b = 0 THEN a
    ELSE XorBits[a % 32, b % 32] + 32 * Xor(a \div 32, b \div 32)

\* GEN of bech32Polymod
GEN == <<996825010, 642813549, 513874426, 1027748829, 705979059>>

\* bech32Polymod(values).  The loop over values[lo..hi] is evaluated in
\* two halves, the first before the second, which bounds the depth of the
\* evaluation.
bech32Polymod(values) ==
    LET RECURSIVE gen(_, _, _)
        gen(chk, b, j) ==
            IF j > 5 THEN chk
            ELSE gen(IF (b \div (2 ^ (j - 1))) % 2 = 1 THEN Xor(chk, GEN[j]) ELSE chk,
                     b, j + 1)
        body(chk, i) ==
            gen(Xor((chk % 33554432) * 32, values[i]), chk \div 33554432, 1)
        RECURSIVE loop(_, _, _)
        loop(chk, lo, hi) ==
            IF lo > hi THEN chk
            ELSE IF lo = hi THEN body(chk, lo)
            ELSE LET mid == (lo + hi) \div 2
                     first == loop(chk, lo, mid)
                 IN  IF first >= 0 THEN loop(first, mid + 1, hi) ELSE first
    IN  loop(1, 1, Len(values))

\* prefixExpand(prefix)
prefixExpand(prefix) ==
    [i \in 1..Len(prefix) |-> CharCode[prefix[i]] \div 32] \o <<0>>
    \o [i \in 1..Len(prefix) |-> CharCode[prefix[i]] % 32]

\* createChecksum(prefix, data)
createChecksum(prefix, data) ==
    LET values == prefixExpand(prefix) \o data \o <<0, 0, 0, 0, 0, 0>>
        polymod == Xor(bech32Polymod(values), 1)
    IN  [i \in 1..6 |-> (polymod \div (2 ^ (5 * (6 - i)))) % 32]

\* acc << n as JavaScript computes it: on 32 bits, signed.
ShiftLeft32(acc, n) ==
    LET half == 2 ^ (31 - n)
        low == acc % half
    IN  IF n = 0 THEN acc
        ELSE IF (acc \div half) % 2 = 1 THEN (low - half) * (2 ^ n)
        ELSE low * (2 ^ n)

\* convertBits(data, fromBits, toBits, pad).  The loop over data[lo..hi] is
\* evaluated in two halves, as in bech32Polymod; st holds acc, bits, result and
\* the exception thrown.
convertBits(data, fromBits, toBits, pad) ==
    LET maxv == 2 ^ toBits
        \* while (bits >= toBits) { bits -= toBits; result.push(...) }
        RECURSIVE drain(_, _, _)
        drain(acc, bits, result) ==
            IF bits >= toBits
            THEN drain(acc, bits - toBits,
                       Append(result, (acc \div (2 ^ (bits - toBits))) % maxv))
            ELSE [bits |-> bits, result |-> result]
        body(st, i) ==
            IF data[i] < 0 \/ data[i] \div (2 ^ fromBits) # 0
            THEN [st EXCEPT !.err = "Invalid data"]
            ELSE LET next == ShiftLeft32(st.acc, fromBits) + data[i]
                     d == drain(next, st.bits + fromBits, st.result)
                 IN  [err |-> "", acc |-> next, bits |-> d.bits,
                      result |-> d.result]
        RECURSIVE loop(_, _, _)
        loop(st, lo, hi) ==
            IF lo > hi \/ st.err # "" THEN st
            ELSE IF lo = hi THEN body(st, lo)
            ELSE LET mid == (lo + hi) \div 2
                     first == loop(st, lo, mid)
                 IN  IF first.err = "" THEN loop(first, mid + 1, hi) ELSE first
        end == loop([err |-> "", acc |-> 0, bits |-> 0, result |-> <<>>], 1,
                    Len(data))
    IN  IF end.err # "" THEN Throw(end.err)
        ELSE IF pad
        THEN Return(IF end.bits > 0
                    THEN Append(end.result,
                                ShiftLeft32(end.acc, toBits - end.bits) % maxv)
                    ELSE end.result)
        ELSE IF end.bits >= fromBits
                \/ ShiftLeft32(end.acc, toBits - end.bits) % maxv # 0
        THEN Throw("Invalid padding")
        ELSE Return(end.result)

\* bech32Encode(prefix, data)
bech32Encode(prefix, data) ==
    LET combined == convertBits(data, 8, 5, TRUE).val
        checksum == createChecksum(prefix, combined)
        all == combined \o checksum
    IN  prefix \o <<"1">> \o [i \in 1..Len(all) |-> BECH32_CHARSET[all[i] + 1]]

\* array.join(''): the decimal numerals of the elements, one after another.
Numeral(n) ==
    LET digit == <<"0", "1", "2", "3", "4", "5", "6", "7", "8", "9">> IN
    IF n < 10 THEN digit[n + 1] ELSE digit[(n \div 10) + 1] \o digit[(n % 10) + 1]
RECURSIVE Join(_)
Join(array) ==
    IF array = <<>> THEN "" ELSE Numeral(Head(array)) \o Join(Tail(array))

\* bech32Decode(str): the exception, or { prefix, data } in val.
bech32Decode(str) ==
    LET pos == LastIndexOf(str, "1")
        prefix == SubSeq(str, 1, pos)
        data == SubSeq(str, pos + 2, Len(str))
        decoded == [i \in 1..Len(data) |-> IndexOf(BECH32_CHARSET, data[i])]
        payload == SubSeq(decoded, 1, Len(decoded) - 6)
        checksum == SubSeq(decoded, IF Len(decoded) > 6 THEN Len(decoded) - 5 ELSE 1,
                           Len(decoded))
        bytes == convertBits(payload, 5, 8, FALSE)
    IN  IF pos < 1 THEN Throw("Invalid bech32 string")
        ELSE IF \E i \in 1..Len(decoded) : decoded[i] = -1
        THEN Throw("Invalid character")
        ELSE IF Join(checksum) # Join(createChecksum(prefix, payload))
        THEN Throw("Invalid checksum")
        ELSE IF bytes.err # "" THEN bytes
        ELSE Return([prefix |-> prefix, data |-> bytes.val])

\* bytesToHex(bytes)
bytesToHex(bytes) ==
    LET hex == <<"0", "1", "2", "3", "4", "5", "6", "7", "8", "9", "a", "b", "c",
                 "d", "e", "f">>
    IN  [k \in 1..(2 * Len(bytes)) |->
            IF k % 2 = 1 THEN hex[(bytes[(k + 1) \div 2] \div 16) + 1]
            ELSE hex[(bytes[k \div 2] % 16) + 1]]

\* npubDecode(npub)
npubDecode(npub) ==
    LET d == bech32Decode(npub) IN
    IF d.err # "" THEN d
    ELSE IF d.val.prefix # <<"n", "p", "u", "b">> THEN Throw("Invalid npub")
    ELSE Return(bytesToHex(d.val.data))

\* nsecDecode(nsec)
nsecDecode(nsec) ==
    LET d == bech32Decode(nsec) IN
    IF d.err # "" THEN d
    ELSE IF d.val.prefix # <<"n", "s", "e", "c">> THEN Throw("Invalid nsec")
    ELSE Return(bytesToHex(d.val.data))

\* noteDecode(note)
noteDecode(note) ==
    LET d == bech32Decode(note) IN
    IF d.err # "" THEN d
    ELSE IF d.val.prefix # <<"n", "o", "t", "e">> THEN Throw("Invalid note")
    ELSE Return(bytesToHex(d.val.data))

\* The state of the relays and the pool when none of them is in use.
Idle ==
    /\ scenario = NoScenario
    /\ relays = {}
    /\ order = <<>>
    /\ constructed = [r \in Urls |-> 0]
    /\ status = [r \in Urls |-> "disconnected"]
    /\ ws = [r \in Urls |-> 0]
    /\ connectionPromise = [r \in Urls |-> 0]
    /\ subscriptions = [r \in Urls |-> [i \in SubIds |-> 0]]
    /\ eventCallbacks = [r \in Urls |-> [i \in SubIds |-> 0]]
    /\ eoseCallbacks = [r \in Urls |-> [i \in SubIds |-> 0]]
    /\ attempts = <<>>
    /\ mq = <<>>
    /\ task = "idle"
    /\ pendingClose = 0
    /\ wire = [r \in Urls |-> <<>>]
    /\ delivered = [r \in Urls |-> <<>>]
    /\ subCalls = <<>>
    /\ pubs = <<>>
    /\ thrown = ""
    /\ poolCall = NoLoop
    /\ poolSubs = <<>>
    /\ poolPubs = <<>>
    /\ invoked = <<>>

\* The tags of the typed wrappers.
Tags == {<<"n", "p", "u", "b">>, <<"n", "s", "e", "c">>, <<"n", "o", "t", "e">>}

\* Byte payloads: an event id of 32 bytes, no bytes, one byte.
EventId ==
    <<1, 2, 3, 4, 5, 6, 7, 8, 9, 10, 11, 12, 13, 14, 15, 16, 17, 18, 19, 20, 21,
      22, 23, 24, 25, 41, 196, 173, 165, 30, 31, 32>>
Payloads == {EventId, <<>>, <<255>>}

\* A caller holds a prefix and bytes.
Bech32Init ==
    /\ Idle
    /\ \E prefix \in Tags, bytes \in Payloads :
          codec = [phase |-> "bytes", prefix |-> prefix, bytes |-> bytes,
                   str |-> <<>>, changed |-> FALSE, decoder |-> "",
                   result |-> Return("")]

\* bech32Encode(prefix, bytes)
Encode ==
    /\ codec.phase = "bytes"
    /\ codec' = [codec EXCEPT !.phase = "string",
                              !.str = bech32Encode(codec.prefix, codec.bytes)]
    /\ UNCHANGED rest

\* One symbol after the separator is replaced with a different symbol of the
\* character set.
Corrupt ==
    /\ codec.phase = "string" /\ ~codec.changed
    /\ \E i \in (Len(codec.prefix) + 2)..Len(codec.str) :
       \E k \in 1..Len(BECH32_CHARSET) :
          /\ BECH32_CHARSET[k] # codec.str[i]
          /\ codec' = [codec EXCEPT !.str[i] = BECH32_CHARSET[k],
                                    !.changed = TRUE]
    /\ UNCHANGED rest

\* bech32Decode(str)
Decode ==
    /\ codec.phase = "string"
    /\ codec' = [codec EXCEPT !.phase = "decoded", !.decoder = "bech32",
                              !.result = bech32Decode(codec.str)]
    /\ UNCHANGED rest

\* npubDecode(str)
NpubDecode ==
    /\ codec.phase = "string"
    /\ codec' = [codec EXCEPT !.phase = "decoded", !.decoder = "npub",
                              !.result = npubDecode(codec.str)]
    /\ UNCHANGED rest

\* nsecDecode(str)
NsecDecode ==
    /\ codec.phase = "string"
    /\ codec' = [codec EXCEPT !.phase = "decoded", !.decoder = "nsec",
                              !.result = nsecDecode(codec.str)]
    /\ UNCHANGED rest

\* noteDecode(str)
NoteDecode ==
    /\ codec.phase = "string"
    /\ codec' = [codec EXCEPT !.phase = "decoded", !.decoder = "note",
                              !.result = noteDecode(codec.str)]
    /\ UNCHANGED rest

Bech32Next ==
    Encode \/ Corrupt \/ Decode \/ NpubDecode \/ NsecDecode \/ NoteDecode

\* The identifier codec: bech32Encode, a corruption, the decoders.
Bech32Spec == Bech32Init /\ [][Bech32Next]_vars

\* ------------------------------------------- claims on the identifier codec

\* C21: bech32Decode of what bech32Encode made of a prefix and bytes returns
\* the prefix and the bytes, and bech32Decode of an encoded string in which
\* one symbol was replaced fails with the checksum error.
C21_RoundTripAndDetect ==
    (codec.phase = "decoded" /\ codec.decoder = "bech32") =>
        IF codec.changed
        THEN codec.result.err = "Invalid checksum"
        ELSE codec.result = Return([prefix |-> codec.prefix, data |-> codec.bytes])

\* C22: a typed decoder that succeeds was given a string with a valid
\* checksum and its own tag, and returns the 64 hex characters of 32 bytes.
C22_TypedDecodersConstrain ==
    (codec.phase = "decoded" /\ codec.decoder # "bech32"
       /\ codec.result.err = "") =>
        /\ Len(codec.result.val) = 64
        /\ LET sep == LastIndexOf(codec.str, "1")
               symbols == [i \in 1..(Len(codec.str) - sep - 1) |->
                              IndexOf(BECH32_CHARSET, codec.str[sep + 1 + i])]
               tag == SubSeq(codec.str, 1, sep)
           IN  /\ Len(symbols) >= 6
               /\ SubSeq(symbols, Len(symbols) - 5, Len(symbols))
                    = createChecksum(tag, SubSeq(symbols, 1, Len(symbols) - 6))
               /\ \/ codec.decoder = "npub" /\ tag = <<"n", "p", "u", "b">>
                  \/ codec.decoder = "nsec" /\ tag = <<"n", "s", "e", "c">>
                  \/ codec.decoder = "note" /\ tag = <<"n", "o", "t", "e">>

\* --------------------------------------------------------------- sortEvents

MaxEvents == 3       \* events in the array given to sortEvents

\* a.localeCompare(b) for ids, strings of lowercase hex digits: the sign of
\* the comparison at the first place where they differ, digits before
\* letters; a proper prefix comes first.
RECURSIVE localeCompare(_, _)
localeCompare(a, b) ==
    LET rank(c) == IndexOf(<<"0", "1", "2", "3", "4", "5", "6", "7", "8", "9",
                             "a", "b", "c", "d", "e", "f">>, c)
    IN  IF a = <<>> /\ b = <<>> THEN 0
        ELSE IF a = <<>> THEN -1
        ELSE IF b = <<>> THEN 1
        ELSE IF rank(Head(a)) < rank(Head(b)) THEN -1
        ELSE IF rank(Head(a)) > rank(Head(b)) THEN 1
        ELSE localeCompare(Tail(a), Tail(b))

\* A comparator that leaves events of one created_at as they are.
compareEvents_NoTieBreak(a, b) ==
    IF a.created_at # b.created_at THEN b.created_at - a.created_at ELSE 0

\* The comparator of sortEvents: (a, b) => ...
compareEvents(a, b) ==
    IF a.created_at # b.created_at THEN b.created_at - a.created_at
    ELSE localeCompare(a.id, b.id)

\* events.sort(comparator): a stable sort; each element goes behind the ones
\* the comparator does not put after it.
RECURSIVE sortEvents(_)
sortEvents(events) ==
    IF events = <<>> THEN <<>>
    ELSE LET sorted == sortEvents(SubSeq(events, 1, Len(events) - 1))
             last == events[Len(events)]
             before == {i \in 0..Len(sorted) :
                           \A j \in 1..i : compareEvents(sorted[j], last) <= 0}
             at == CHOOSE i \in before : \A k \in before : k <= i
         IN  SubSeq(sorted, 1, at) \o <<last>> \o SubSeq(sorted, at + 1, Len(sorted))

\* Events, by the two properties the comparator reads.
SortableEvents ==
    [created_at : {10, 11},
     id : {<<"0", "a">>, <<"0", "f">>, <<"9", "0">>, <<"a", "0">>}]

\* A caller holds an array of events.
SortInit ==
    /\ Idle
    /\ \E n \in 0..MaxEvents : \E events \in [1..n -> SortableEvents] :
          codec = [phase |-> "events", events |-> events, result |-> <<>>]

\* sortEvents(events)
SortEvents ==
    /\ codec.phase = "events"
    /\ codec' = [codec EXCEPT !.phase = "sorted",
                              !.result = sortEvents(codec.events)]
    /\ UNCHANGED rest

SortNext == SortEvents

\* sortEvents applied to an array of events.
SortSpec == SortInit /\ [][SortNext]_vars

\* ------------------------------------------------------ claims on sortEvents

\* The arrays that hold the elements of q in another order.
Reorderings(q) ==
    {[i \in 1..Len(q) |-> q[p[i]]] : p \in Permutations(1..Len(q))}

\* C23: the array sortEvents returns holds the events of its input, with
\* created_at never increasing, events of one created_at in ascending order
\* of id, and it is the same for every order of the input.
C23_SortIsTotalOrder ==
    codec.phase = "sorted" =>
        /\ codec.result \in Reorderings(codec.events)
        /\ \A i \in 1..(Len(codec.result) - 1) :
              /\ codec.result[i].created_at >= codec.result[i + 1].created_at
              /\ codec.result[i].created_at = codec.result[i + 1].created_at
                    => localeCompare(codec.result[i].id, codec.result[i + 1].id) <= 0
        /\ \A q \in Reorderings(codec.events) : sortEvents(q) = codec.result

\* sortEvents has moved an older event behind two newer ones of one
\* created_at and exchanged those two.
C23_Witness ==
    /\ codec.phase = "sorted"
    /\ codec.events = <<[created_at |-> 10, id |-> <<"0", "a">>],
                        [created_at |-> 11, id |-> <<"a", "0">>],
                        [created_at |-> 11, id |-> <<"9", "0">>]>>
    /\ codec.result = <<[created_at |-> 11, id |-> <<"9", "0">>],
                        [created_at |-> 11, id |-> <<"a", "0">>],
                        [created_at |-> 10, id |-> <<"0", "a">>]>>

\* ------------------------------------------- claims on the transport handle

\* C24: while the status of a relay is 'connected' its handle this.ws is a
\* socket that is open, and no call of send throws for a missing or still
\* opening socket.
C24_ConnectedMeansOpen ==
    /\ \A r \in Urls : status[r] = "connected" =>
          ws[r] # 0 /\ attempts[ws[r]].rs = "OPEN"
    /\ thrown = ""

\* The subscribe call whose REQ frame this step has transmitted to relay r.
ReqSent(r) == wire'[r][Len(wire'[r])].n

\* C25: a REQ frame is transmitted only for an id the registry holds for the
\* subscribe call the frame belongs to: after unsubscribe(id) or close() the
\* deferred REQ frame of an earlier subscribe is not sent.
C25_Step ==
    \A r \in Urls :
        (Len(wire'[r]) > Len(wire[r]) /\ wire'[r][Len(wire'[r])].t = "REQ") =>
            subscriptions'[r][subCalls'[ReqSent(r)].id] = ReqSent(r)

\* C25: no REQ frame is transmitted for a subscription the registry no longer
\* holds.
C25_NoReqAfterRemoval == [][C25_Step]_vars

\* An event of socket s is handled in this step.
EventOf(s) ==
    \/ TransportOpen(s) \/ TransportError(s) \/ TransportClose(s)
    \/ TransportMessage(s)
    \/ (pendingClose = s /\ CloseAfterError)

\* C26: a relay that close() has left 'disconnected' with no handle stays so
\* until connect() creates a transport, and an event of a socket that a newer
\* one has replaced changes no status and invokes no callback.
C26_Step ==
    /\ \A r \in Urls :
          (ws[r] = 0 /\ status[r] = "disconnected" /\ status'[r] # "disconnected")
              => Len(attempts') > Len(attempts)
    /\ \A s \in 1..Len(attempts) :
          (EventOf(s) /\ ws[attempts[s].relay] > s) =>
              status' = status /\ invoked' = invoked

\* C26: events of a transport that was closed or replaced have no effect.
C26_StaleEventsIgnored == [][C26_Step]_vars
====
